---- MODULE Spec2Model ----
(***************************************************************************)
(* Verification model of the translation layers and the mock store of the  *)
(* repository:                                                             *)
(*   - the Clickhouse SQL compilation of Aggregate / Window expressions    *)
(*     (crates/analytics/src/clickhouse.rs), SpecSql;                      *)
(*   - the Multisafepay connector                                          *)
(*     (crates/hyperswitch_connectors/.../multisafepay/transformers.rs):   *)
(*     the error-code lookup (SpecErr), the authorize-request builder      *)
(*     (SpecAuth), the bank-name mapping (SpecBank) and the parses of      *)
(*     payment and refund responses (SpecParse);                           *)
(*   - the MockDb merchant key store behind its mutex                      *)
(*     (crates/router/src/db/merchant_key_store.rs), SpecMks, and the      *)
(*     Store key store behind the accounts cache, SpecAcc;                 *)
(*   - the decoding of response bodies into the untagged enums, SpecDec;   *)
(*   - ProfileUpdateInternal::apply_changeset                              *)
(*     (crates/diesel_models/src/business_profile.rs), SpecBp;             *)
(*   - the theme routes (crates/router/src/routes/user/theme.rs), SpecTh.  *)
(* Each layer has its own specification: its Init draws the inputs, its    *)
(* actions apply the translated code, the other layers stay at rest.       *)
(***************************************************************************)
EXTENDS Integers, Sequences, FiniteSets, TLC

VARIABLES
    sqlExpr,     \* the Aggregate / Window expression being compiled
    sqlLast,     \* the most recent compilation of sqlExpr, or Idle
    sqlPrev,     \* the compilation of sqlExpr before it, or Idle
    errInput,    \* a MultisafepayErrorResponse
    errOutput,   \* Option<AttemptStatus> of the lookup, or Pending
    authMethod,  \* the payment_method_data of an authorize request
    authData,    \* the rest of the router data handed to try_from, or Idle
    authResult,  \* its Result, or Pending
    bankInput,   \* a canonical BankNames value
    bankOutput,  \* the Result of MultisafepayBankNames::try_from, or Pending
    parseFlow,   \* the flow whose responses are parsed: Authorize, Execute, RSync
    payStatus,   \* the attempt status of the payment's router data
    payPrev,     \* (history) the attempt status before the latest parse
    payLeft,     \* (history) the status had left the initial statuses before it
    parseItem,   \* the latest vendor response parsed, with its http code
    parseResult, \* the response field of the router data the parse returned
    mksStore,    \* MockDb::merchant_key_store: the Vec behind the mutex
    mksLock,     \* the task that holds the mutex, or None
    mksTask,     \* for each task, the call it is in and where it stands
    mksInserted, \* (history) per merchant, what its successful insert returned
    mksReturned, \* (history) the call that returned in the latest step, or None
    accDb,       \* the merchant_key_store table: per merchant, its row or None
    accCache,    \* ACCOUNTS_CACHE: per cache key, the cached row or None
    accTask,     \* for each task, the Store call it is in and where it stands
    accDeleted,  \* (history) the rows that completed deletes have removed
    accReturned, \* (history) the Store call that returned in the latest step, or None
    accClock,    \* the time the next inserted row is created at
    decFlow,     \* the flow whose response body is decoded: Authorize or Refund
    decPayload,  \* the JSON body of the latest vendor response
    decResult,   \* the Result of decoding it into the flow's untagged enum
    bpVersion,   \* the feature the profile code is built with: v1 or v2
    bpSource,    \* the Profile a changeset is applied to
    bpChangeset, \* the ProfileUpdateInternal applied to it
    bpResult,    \* the Profile apply_changeset returned, or Pending
    thRoute,     \* the theme route handler the latest request reached
    thCredential,\* the credential that request carried
    thOutcome    \* what server_wrap did with it, or Pending

vars == <<sqlExpr, sqlLast, sqlPrev, errInput, errOutput, authMethod,
          authData, authResult, bankInput, bankOutput, parseFlow, payStatus,
          payPrev, payLeft, parseItem, parseResult, mksStore, mksLock,
          mksTask, mksInserted, mksReturned, accDb, accCache, accTask,
          accDeleted, accReturned, accClock, decFlow, decPayload, decResult,
          bpVersion, bpSource, bpChangeset, bpResult, thRoute, thCredential,
          thOutcome>>

(***************************************************************************)
(* Option<T>, Result<T, E> and small string helpers                        *)
(***************************************************************************)
None == [some |-> FALSE]
Some(v) == [some |-> TRUE, val |-> v]
Option(S) == {None} \cup {Some(v) : v \in S}

\* a variable of a layer that has not run, and a result not yet computed
Idle == [idle |-> TRUE]
Pending == [pending |-> TRUE]

\* the variables of each layer, and the layer at rest
sqlVars == <<sqlExpr, sqlLast, sqlPrev>>
errVars == <<errInput, errOutput>>
authVars == <<authMethod, authData, authResult>>
bankVars == <<bankInput, bankOutput>>
parseVars == <<parseFlow, payStatus, payPrev, payLeft, parseItem, parseResult>>
mksVars == <<mksStore, mksLock, mksTask, mksInserted, mksReturned>>
accVars == <<accDb, accCache, accTask, accDeleted, accReturned, accClock>>
decVars == <<decFlow, decPayload, decResult>>
bpVars == <<bpVersion, bpSource, bpChangeset, bpResult>>
thVars == <<thRoute, thCredential, thOutcome>>

SqlIdle ==
    sqlExpr = Idle /\ sqlLast = Idle /\ sqlPrev = Idle

ErrIdle ==
    errInput = Idle /\ errOutput = Idle

AuthIdle ==
    authMethod = Idle /\ authData = Idle /\ authResult = Idle

BankIdle ==
    bankInput = Idle /\ bankOutput = Idle

ParseIdle ==
    parseFlow = Idle /\ payStatus = Idle /\ payPrev = Idle /\
    payLeft = Idle /\ parseItem = Idle /\ parseResult = Idle

MksIdle ==
    mksStore = Idle /\ mksLock = Idle /\ mksTask = Idle /\
    mksInserted = Idle /\ mksReturned = Idle

AccIdle ==
    accDb = Idle /\ accCache = Idle /\ accTask = Idle /\ accDeleted = Idle /\
    accReturned = Idle /\ accClock = Idle

DecIdle ==
    decFlow = Idle /\ decPayload = Idle /\ decResult = Idle

BpIdle ==
    bpVersion = Idle /\ bpSource = Idle /\ bpChangeset = Idle /\
    bpResult = Idle

ThIdle ==
    thRoute = Idle /\ thCredential = Idle /\ thOutcome = Idle

\* everything outside one layer: what its actions leave alone and what its
\* initial states keep at rest
OutsideSql ==
    <<errVars, authVars, bankVars, parseVars, mksVars, accVars, decVars,
      bpVars, thVars>>
OutsideErr ==
    <<sqlVars, authVars, bankVars, parseVars, mksVars, accVars, decVars,
      bpVars, thVars>>
OutsideAuth ==
    <<sqlVars, errVars, bankVars, parseVars, mksVars, accVars, decVars,
      bpVars, thVars>>
OutsideBank ==
    <<sqlVars, errVars, authVars, parseVars, mksVars, accVars, decVars,
      bpVars, thVars>>
OutsideParse ==
    <<sqlVars, errVars, authVars, bankVars, mksVars, accVars, decVars,
      bpVars, thVars>>
OutsideMks ==
    <<sqlVars, errVars, authVars, bankVars, parseVars, accVars, decVars,
      bpVars, thVars>>
OutsideAcc ==
    <<sqlVars, errVars, authVars, bankVars, parseVars, mksVars, decVars,
      bpVars, thVars>>
OutsideDec ==
    <<sqlVars, errVars, authVars, bankVars, parseVars, mksVars, accVars,
      bpVars, thVars>>
OutsideBp ==
    <<sqlVars, errVars, authVars, bankVars, parseVars, mksVars, accVars,
      decVars, thVars>>
OutsideTh ==
    <<sqlVars, errVars, authVars, bankVars, parseVars, mksVars, accVars,
      decVars, bpVars>>

OutsideSqlIdle ==
    ErrIdle /\ AuthIdle /\ BankIdle /\ ParseIdle /\ MksIdle /\ AccIdle /\
    DecIdle /\ BpIdle /\ ThIdle
OutsideErrIdle ==
    SqlIdle /\ AuthIdle /\ BankIdle /\ ParseIdle /\ MksIdle /\ AccIdle /\
    DecIdle /\ BpIdle /\ ThIdle
OutsideAuthIdle ==
    SqlIdle /\ ErrIdle /\ BankIdle /\ ParseIdle /\ MksIdle /\ AccIdle /\
    DecIdle /\ BpIdle /\ ThIdle
OutsideBankIdle ==
    SqlIdle /\ ErrIdle /\ AuthIdle /\ ParseIdle /\ MksIdle /\ AccIdle /\
    DecIdle /\ BpIdle /\ ThIdle
OutsideParseIdle ==
    SqlIdle /\ ErrIdle /\ AuthIdle /\ BankIdle /\ MksIdle /\ AccIdle /\
    DecIdle /\ BpIdle /\ ThIdle
OutsideMksIdle ==
    SqlIdle /\ ErrIdle /\ AuthIdle /\ BankIdle /\ ParseIdle /\ AccIdle /\
    DecIdle /\ BpIdle /\ ThIdle
OutsideAccIdle ==
    SqlIdle /\ ErrIdle /\ AuthIdle /\ BankIdle /\ ParseIdle /\ MksIdle /\
    DecIdle /\ BpIdle /\ ThIdle
OutsideDecIdle ==
    SqlIdle /\ ErrIdle /\ AuthIdle /\ BankIdle /\ ParseIdle /\ MksIdle /\
    AccIdle /\ BpIdle /\ ThIdle
OutsideBpIdle ==
    SqlIdle /\ ErrIdle /\ AuthIdle /\ BankIdle /\ ParseIdle /\ MksIdle /\
    AccIdle /\ DecIdle /\ ThIdle
OutsideThIdle ==
    SqlIdle /\ ErrIdle /\ AuthIdle /\ BankIdle /\ ParseIdle /\ MksIdle /\
    AccIdle /\ DecIdle /\ BpIdle

\* s ends with the text suffix
EndsWith(s, suffix) ==
    /\ Len(s) >= Len(suffix)
    /\ SubSeq(s, Len(s) - Len(suffix) + 1, Len(s)) = suffix

\* sub occurs somewhere in s
Contains(s, sub) ==
    \E i \in 1..(Len(s) - Len(sub) + 1) : SubSeq(s, i, i + Len(sub) - 1) = sub

(***************************************************************************)
(* Analytics: TableEngine and AnalyticsCollection                          *)
(***************************************************************************)
BasicTree == [engine |-> "BasicTree"]
CollapsingMergeTree(sign) == [engine |-> "CollapsingMergeTree", sign |-> sign]

SignCollections ==
    {"Payment", "PaymentSessionized", "Refund", "RefundSessionized", "FraudCheck",
     "PaymentIntent", "PaymentIntentSessionized", "Authentications", "Dispute",
     "DisputeSessionized"}

BasicCollections ==
    {"SdkEvents", "SdkEventsAnalytics", "ApiEvents", "ConnectorEvents",
     "RoutingEvents", "ApiEventsAnalytics", "OutgoingWebhookEvent",
     "ActivePaymentsAnalytics"}

AnalyticsCollection == SignCollections \cup BasicCollections

\* a mutant: one sign-bearing collection is classified as a basic table
get_table_engine_RefundBasic(table) ==
    IF table \in SignCollections \ {"Refund"}
    THEN CollapsingMergeTree("sign_flag")
    ELSE BasicTree

get_table_engine(table) ==
    CASE table \in {"Payment", "PaymentSessionized", "Refund", "RefundSessionized",
                    "FraudCheck", "PaymentIntent", "PaymentIntentSessionized",
                    "Authentications", "Dispute"}
            -> CollapsingMergeTree("sign_flag")
      [] table = "DisputeSessionized"
            -> CollapsingMergeTree("sign_flag")
      [] table \in {"SdkEvents", "SdkEventsAnalytics", "ApiEvents", "ConnectorEvents",
                    "RoutingEvents", "ApiEventsAnalytics", "OutgoingWebhookEvent",
                    "ActivePaymentsAnalytics"}
            -> BasicTree

\* to_sql is a public trait method: an engine may also be handed in directly,
\* with any sign column
NoTable == "NoTable"
SignColumns == {"sign_flag", "sign"}
TableEngine == {BasicTree} \cup {CollapsingMergeTree(s) : s \in SignColumns}

(***************************************************************************)
(* Analytics: the expressions                                              *)
(***************************************************************************)
\* The field type T is generic; its to_sql either yields the column text or fails.
Fields ==
    {[name |-> "amount", valid |-> TRUE],
     [name |-> "payment_id", valid |-> TRUE],
     [name |-> "nested.bad", valid |-> FALSE]}

Aliases == Option({"total"})

\* Option<&'static u8>
Percentiles == Option({5, 50, 90})

PartitionBys == Option({"connector"})
OrderBys == Option({<<"created_at", "Ascending">>, <<"amount", "Descending">>})

FieldAggregateKinds == {"Sum", "Min", "Max", "Percentile", "DistinctCount"}
AggregateKinds == {"Count"} \cup FieldAggregateKinds
WindowKinds == {"Sum", "RowNumber"}

Aggregate ==
    [type : {"Aggregate"}, kind : AggregateKinds \ {"Percentile"},
     field : Fields, alias : Aliases]
    \cup
    [type : {"Aggregate"}, kind : {"Percentile"},
     field : Fields, alias : Aliases, percentile : Percentiles]

Window ==
    [type : {"Window"}, kind : WindowKinds, field : Fields,
     partition_by : PartitionBys, order_by : OrderBys, alias : Aliases]

Ok(text) == [ok |-> TRUE, text |-> text]
Err(error, printables) == [ok |-> FALSE, error |-> error, printables |-> printables]

\* error_stack's attach_printable on a Result: an Ok passes through, an Err
\* keeps its context and gets the description attached
attach_printable(result, description) ==
    IF result.ok THEN result
    ELSE Err(result.error, Append(result.printables, description))

FieldToSql(field, table_engine) ==
    IF field.valid THEN Ok(field.name) ELSE Err("ParsingError", <<>>)

\* Display of the sort order
OrderDisplay(order) == IF order = "Ascending" THEN "asc" ELSE "desc"

\* a mutant: the alias is dropped
AliasSuffix_Dropped(alias) == ""

\* alias.map_or_else(|| "".to_owned(), |alias| format!(" as {alias}"))
AliasSuffix(alias) == IF alias.some THEN " as " \o alias.val ELSE ""

(***************************************************************************)
(* Analytics: impl ToSql<ClickhouseClient> for Aggregate<T>                *)
(***************************************************************************)
\* a mutant: rows are counted naively on every engine
CountQuery_Naive(table_engine) == "count(*)"

\* Count: the query text before the alias
CountQuery(table_engine) ==
    IF table_engine.engine = "CollapsingMergeTree"
    THEN "sum(" \o table_engine.sign \o ")"
    ELSE "count(*)"

\* a mutant: the sign column is forgotten
SumQuery_Unsigned(table_engine, f) == "sum(" \o f \o ")"

\* Sum: the query text before the alias, f the compiled field
SumQuery(table_engine, f) ==
    IF table_engine.engine = "CollapsingMergeTree"
    THEN "sum(" \o table_engine.sign \o " * " \o f \o ")"
    ELSE "sum(" \o f \o ")"

\* a mutant: the default percentile is the 5th
PercentileQuery_Default5(percentile, f) ==
    "quantilesExact(0."
        \o (IF percentile.some THEN ToString(percentile.val) ELSE "5")
        \o ")(" \o f \o ")[1]"

\* Percentile: the query text before the alias, f the compiled field
PercentileQuery(percentile, f) ==
    "quantilesExact(0."
        \o (IF percentile.some THEN ToString(percentile.val) ELSE "50")
        \o ")(" \o f \o ")[1]"

\* the description each arm attaches to a failure of its field
AggregatePrintable(kind) ==
    CASE kind = "Sum" -> "Failed to sum aggregate"
      [] kind = "Min" -> "Failed to min aggregate"
      [] kind = "Max" -> "Failed to max aggregate"
      [] kind = "Percentile" -> "Failed to percentile aggregate"
      [] kind = "DistinctCount" -> "Failed to percentile aggregate"

ToSqlAggregate(agg, table_engine) ==
    IF agg.kind = "Count"
    THEN Ok(CountQuery(table_engine) \o AliasSuffix(agg.alias))
    ELSE
        LET f == attach_printable(FieldToSql(agg.field, table_engine),
                                  AggregatePrintable(agg.kind))
        IN  IF ~f.ok THEN f
            ELSE CASE agg.kind = "Sum" ->
                        Ok(SumQuery(table_engine, f.text) \o AliasSuffix(agg.alias))
                   [] agg.kind = "Min" ->
                        Ok("min(" \o f.text \o ")" \o AliasSuffix(agg.alias))
                   [] agg.kind = "Max" ->
                        Ok("max(" \o f.text \o ")" \o AliasSuffix(agg.alias))
                   [] agg.kind = "Percentile" ->
                        Ok(PercentileQuery(agg.percentile, f.text)
                           \o AliasSuffix(agg.alias))
                   [] agg.kind = "DistinctCount" ->
                        Ok("count(distinct " \o f.text \o ")" \o AliasSuffix(agg.alias))

(***************************************************************************)
(* Analytics: impl ToSql<ClickhouseClient> for Window<T>                   *)
(***************************************************************************)
WindowPrintable(kind) == "Failed to sum window"

\* "({partition}{order})": the over clause shared by both arms
OverClause(partition_by, order_by) ==
    "("
    \o (IF partition_by.some THEN "partition by " \o partition_by.val ELSE "")
    \o (IF order_by.some
        THEN " order by " \o order_by.val[1] \o " " \o OrderDisplay(order_by.val[2])
        ELSE "")
    \o ")"

ToSqlWindow(win, table_engine) ==
    IF win.kind = "Sum"
    THEN LET f == attach_printable(FieldToSql(win.field, table_engine),
                                   WindowPrintable(win.kind))
         IN  IF ~f.ok THEN f
             ELSE Ok("sum(" \o f.text \o ") over "
                     \o OverClause(win.partition_by, win.order_by)
                     \o AliasSuffix(win.alias))
    ELSE Ok("row_number() over "
            \o OverClause(win.partition_by, win.order_by)
            \o AliasSuffix(win.alias))

(***************************************************************************)
(* Analytics: the specification SpecSql                                    *)
(* One expression is drawn; it is compiled again and again, for a          *)
(* collection (through get_table_engine) or for an engine handed in.  The  *)
(* two most recent compilations are kept, so that two compilations of one  *)
(* expression can be compared.                                             *)
(***************************************************************************)
Run(table, table_engine, result) ==
    [table |-> table, table_engine |-> table_engine, result |-> result]

InitSql ==
    /\ sqlExpr \in Aggregate \cup Window
    /\ sqlLast = Idle /\ sqlPrev = Idle
    /\ OutsideSqlIdle

CompileAggregate ==
    /\ sqlExpr.type = "Aggregate"
    /\ \E table \in AnalyticsCollection \cup {NoTable}, table_engine \in TableEngine :
          /\ table # NoTable => table_engine = get_table_engine(table)
          /\ sqlLast' = Run(table, table_engine, ToSqlAggregate(sqlExpr, table_engine))
    /\ sqlPrev' = sqlLast
    /\ UNCHANGED <<sqlExpr, OutsideSql>>

CompileWindow ==
    /\ sqlExpr.type = "Window"
    /\ \E table \in AnalyticsCollection \cup {NoTable}, table_engine \in TableEngine :
          /\ table # NoTable => table_engine = get_table_engine(table)
          /\ sqlLast' = Run(table, table_engine, ToSqlWindow(sqlExpr, table_engine))
    /\ sqlPrev' = sqlLast
    /\ UNCHANGED <<sqlExpr, OutsideSql>>

NextSql == CompileAggregate \/ CompileWindow

SpecSql == InitSql /\ [][NextSql]_vars

Compiled == sqlLast # Idle
CompiledTwice == sqlPrev # Idle

\* the trait method, dispatched on the expression's type
ToSql(expr, table_engine) ==
    IF expr.type = "Aggregate" THEN ToSqlAggregate(expr, table_engine)
    ELSE ToSqlWindow(expr, table_engine)

(***************************************************************************)
(* Analytics: the claims                                                   *)
(***************************************************************************)
IsAggregate(kind) == sqlExpr.type = "Aggregate" /\ sqlExpr.kind = kind
IsWindow(kind) == sqlExpr.type = "Window" /\ sqlExpr.kind = kind
OnSign(run) == run.table_engine.engine = "CollapsingMergeTree"
WithoutAlias(expr) == [expr EXCEPT !.alias = None]

\* C1: Count compiles to "sum(<sign column>)" on a CollapsingMergeTree engine
\* and to "count(*)" on a BasicTree engine, whatever its field is (a field that
\* does not compile included); an alias "total" appends " as total".
C1_CountCompiles ==
    (Compiled /\ IsAggregate("Count")) =>
        /\ sqlLast.result.ok
        /\ sqlLast.result.text =
              (IF OnSign(sqlLast) THEN "sum(" \o sqlLast.table_engine.sign \o ")"
               ELSE "count(*)")
              \o (IF sqlExpr.alias = Some("total") THEN " as total" ELSE "")
        /\ (sqlLast.table_engine = CollapsingMergeTree("sign_flag") /\ sqlExpr.alias = None)
              => sqlLast.result.text = "sum(sign_flag)"
        /\ (sqlLast.table_engine = BasicTree /\ sqlExpr.alias = None)
              => sqlLast.result.text = "count(*)"
        /\ (sqlLast.table_engine = BasicTree /\ sqlExpr.alias = Some("total"))
              => sqlLast.result.text = "count(*) as total"

\* C1 witness: one aliased Count over a field that does not compile, compiled
\* for a basic table and then for a sign-bearing one.
C1_Witness ==
    /\ CompiledTwice /\ IsAggregate("Count")
    /\ ~sqlExpr.field.valid
    /\ sqlPrev.table = "ApiEvents" /\ sqlPrev.result = Ok("count(*) as total")
    /\ sqlLast.table = "Payment" /\ sqlLast.result = Ok("sum(sign_flag) as total")

\* C2: Sum over a field compiling to f yields "sum(<sign column> * f)" on a
\* CollapsingMergeTree engine and "sum(f)" on a BasicTree engine: on a
\* sign-bearing engine the summed field is always multiplied by the sign column.
C2_SumCompiles ==
    (Compiled /\ IsAggregate("Sum") /\ sqlExpr.field.valid) =>
        /\ sqlLast.result.ok
        /\ sqlLast.result.text =
              (IF OnSign(sqlLast)
               THEN "sum(" \o sqlLast.table_engine.sign \o " * " \o sqlExpr.field.name \o ")"
               ELSE "sum(" \o sqlExpr.field.name \o ")")
              \o (IF sqlExpr.alias = Some("total") THEN " as total" ELSE "")
        /\ OnSign(sqlLast) =>
              Contains(sqlLast.result.text,
                       sqlLast.table_engine.sign \o " * " \o sqlExpr.field.name)

\* C2 witness: Sum(amount) compiled for a sign-bearing table.
C2_Witness ==
    /\ Compiled /\ IsAggregate("Sum")
    /\ sqlLast.table = "Refund"
    /\ sqlLast.result = Ok("sum(sign_flag * amount)")

\* C3: Percentile over a field compiling to f yields
\* "quantilesExact(0.50)(f)[1]" when percentile is None and
\* "quantilesExact(0.90)(f)[1]" when it is Some(90), on either table engine.
C3_PercentileCompiles ==
    (Compiled /\ IsAggregate("Percentile") /\ sqlExpr.field.valid
       /\ sqlExpr.percentile \in {None, Some(90)}) =>
        /\ sqlLast.result.ok
        /\ sqlLast.result.text =
              "quantilesExact("
              \o (IF sqlExpr.percentile = None THEN "0.50" ELSE "0.90")
              \o ")(" \o sqlExpr.field.name \o ")[1]"
              \o (IF sqlExpr.alias = Some("total") THEN " as total" ELSE "")

\* C3 witness: the default percentile compiled on a sign-bearing engine after
\* a basic one, with the same text.
C3_Witness ==
    /\ CompiledTwice /\ IsAggregate("Percentile")
    /\ sqlExpr.percentile = None
    /\ sqlPrev.table_engine = BasicTree /\ OnSign(sqlLast)
    /\ sqlPrev.result = Ok("quantilesExact(0.50)(amount)[1]")
    /\ sqlLast.result = Ok("quantilesExact(0.50)(amount)[1]")

\* C4: for every Aggregate and Window variant, an alias Some(a) appends exactly
\* " as a" at the end of the compiled text, an alias None yields text with no
\* "as" clause, and the text before the alias is the same in both cases.
C4_AliasAppended ==
    (Compiled /\ sqlLast.result.ok) =>
        LET base == ToSql(WithoutAlias(sqlExpr), sqlLast.table_engine)
        IN  /\ base.ok
            /\ ~Contains(base.text, " as ")
            /\ sqlExpr.alias = None => sqlLast.result.text = base.text
            /\ sqlExpr.alias # None =>
                  /\ sqlLast.result.text = base.text \o " as " \o sqlExpr.alias.val
                  /\ EndsWith(sqlLast.result.text, " as " \o sqlExpr.alias.val)
                  /\ Len(sqlLast.result.text)
                        = Len(base.text) + Len(" as ") + Len(sqlExpr.alias.val)

\* C4 witness: an aliased window with partition and order.
C4_Witness ==
    /\ Compiled /\ IsWindow("RowNumber")
    /\ sqlExpr.alias = Some("total")
    /\ sqlLast.result =
          Ok("row_number() over (partition by connector order by created_at asc) as total")

\* the word by which a description names a kind
KindWord(kind) ==
    CASE kind = "Sum" -> "sum"
      [] kind = "Min" -> "min"
      [] kind = "Max" -> "max"
      [] kind = "Percentile" -> "percentile"
      [] kind = "DistinctCount" -> "distinct"

\* C5: when the field of an aggregate or window fails to compile, the result is
\* that error and no SQL text, and the attached description names the kind
\* that failed (Sum, Min, Max, Percentile, DistinctCount; the Sum window) and
\* no other kind.
C5_ErrorNamesKind ==
    (Compiled /\ ~sqlExpr.field.valid
       /\ (sqlExpr.type = "Aggregate" => sqlExpr.kind \in FieldAggregateKinds)
       /\ (sqlExpr.type = "Window" => sqlExpr.kind = "Sum")) =>
        /\ ~sqlLast.result.ok
        /\ "text" \notin DOMAIN sqlLast.result
        /\ sqlLast.result.error = FieldToSql(sqlExpr.field, sqlLast.table_engine).error
        /\ Len(sqlLast.result.printables) = 1
        /\ sqlExpr.type = "Window" =>
              /\ Contains(sqlLast.result.printables[1], "window")
              /\ Contains(sqlLast.result.printables[1], KindWord("Sum"))
        /\ sqlExpr.type = "Aggregate" =>
              /\ Contains(sqlLast.result.printables[1], "aggregate")
              /\ \A kind \in FieldAggregateKinds :
                    Contains(sqlLast.result.printables[1], KindWord(kind))
                        <=> (kind = sqlExpr.kind)

\* C6: the SQL compiled for an expression depends only on the expression and
\* the TableEngine: two compilations of one expression for collections of the
\* same engine (Payment and Refund, SdkEvents and ApiEvents, ...) or for the
\* same engine give identical results, and two engines give different results
\* only where the sign column enters (Aggregate Count and Sum).
C6_EngineOnly ==
    CompiledTwice =>
        /\ sqlPrev.table_engine = sqlLast.table_engine => sqlPrev.result = sqlLast.result
        /\ \A group \in {SignCollections, BasicCollections} :
              (sqlPrev.table \in group /\ sqlLast.table \in group)
                  => sqlPrev.result = sqlLast.result
        /\ sqlPrev.result # sqlLast.result =>
              /\ sqlPrev.table_engine # sqlLast.table_engine
              /\ IsAggregate("Count") \/ IsAggregate("Sum")

\* C6 witness: Count compiled for Payment and then for Refund, and the two
\* texts are the same sign-column sum.
C6_Witness ==
    /\ CompiledTwice /\ IsAggregate("Count")
    /\ sqlPrev.table = "Payment" /\ sqlLast.table = "Refund"
    /\ sqlPrev.result = sqlLast.result
    /\ sqlLast.result = Ok("sum(sign_flag)")

(***************************************************************************)
(* Multisafepay: impl From<MultisafepayErrorResponse> for                  *)
(* Option<AttemptStatus>                                                   *)
(***************************************************************************)
\* error_code is an i32
I32Max == 2147483647
I32Min == -I32Max - 1

\* the codes drawn: a window around the table, the outliers of the table with
\* their neighbours, and the ends of the i32 range
LowCode == 995
HighCode == 1040
ErrorCodes ==
    (LowCode..HighCode)
    \cup {5000, 5001, 5002, 10000, 10001, 10002}
    \cup {I32Min, -1017, -1, 0, 1, 17, 101, I32Max}

ErrorInfos == {"", "Invalid amount"}

MultisafepayErrorResponse == [error_code : ErrorCodes, error_info : ErrorInfos]

\* the AttemptStatus values the connector produces
AttemptStatus ==
    {"AuthenticationFailed", "AuthorizationFailed", "Failure", "Charged",
     "AuthenticationPending", "Pending", "Voided"}

\* a mutant: an unknown code is treated as a plain failure
AttemptStatusFromError_DefaultFailure(error_data) ==
    IF error_data.error_code = 1017 THEN Some("AuthorizationFailed")
    ELSE Some("Failure")

\* a mutant: the gaps of the table are filled in
AttemptStatusFromError_NoGaps(error_data) ==
    CASE error_data.error_code \in (1002..1036) \ {1017, 1022, 1024, 1034}
            -> Some("AuthenticationFailed")
      [] error_data.error_code \in {10001, 5001} -> Some("AuthenticationFailed")
      [] error_data.error_code \in {1034, 1022, 1024} -> Some("Failure")
      [] error_data.error_code = 1017 -> Some("AuthorizationFailed")
      [] OTHER -> None

AttemptStatusFromError(error_data) ==
    CASE error_data.error_code \in
            {10001, 1002, 1003, 1004, 1005, 1006, 1007, 1008, 1010, 1011, 1012,
             1013, 1015, 1016, 1018, 1025, 1026, 1027, 1028, 1029, 1030, 1031,
             1035, 1036, 5001, 1032}
            -> Some("AuthenticationFailed")
      [] error_data.error_code \in {1034, 1022, 1024} -> Some("Failure")
      [] error_data.error_code = 1017 -> Some("AuthorizationFailed")
      [] OTHER -> None

InitErr ==
    /\ errInput \in MultisafepayErrorResponse
    /\ errOutput = Pending
    /\ OutsideErrIdle

LookupAttemptStatus ==
    /\ errOutput = Pending
    /\ errOutput' = AttemptStatusFromError(errInput)
    /\ UNCHANGED <<errInput, OutsideErr>>

NextErr == LookupAttemptStatus

SpecErr == InitErr /\ [][NextErr]_vars

\* the codes the table lists, as enumerated
ListedCodes ==
    {10001, 5001} \cup (1002..1008) \cup (1010..1013) \cup {1015, 1016, 1018}
    \cup (1025..1032) \cup {1035, 1036} \cup {1022, 1024, 1034} \cup {1017}

\* C7: the error-code lookup is total over the i32 codes: it always returns an
\* Option<AttemptStatus>, code 1017 maps to Some(AuthorizationFailed), and
\* every code that is not in the table maps to None.
C7_LookupTotal ==
    /\ errOutput = Pending => ENABLED LookupAttemptStatus
    /\ errOutput # Pending =>
          /\ errOutput \in Option(AttemptStatus)
          /\ errInput.error_code = 1017 => errOutput = Some("AuthorizationFailed")
          /\ errInput.error_code \notin ListedCodes => errOutput = None

\* C7 witness: the largest i32, a code outside the table, looked up to None.
C7_Witness ==
    /\ errInput.error_code = I32Max
    /\ errOutput = None

(***************************************************************************)
(* Multisafepay: the canonical payment-method variants                     *)
(***************************************************************************)
SupportedWallets ==
    {"GooglePay", "PaypalRedirect", "AliPayRedirect", "WeChatPayRedirect",
     "MbWayRedirect"}

\* the wallets the three matches of try_from list under NotImplemented
WalletsListedUnimplemented ==
    {"AliPayQr", "AliPayHkRedirect", "AmazonPayRedirect", "Paysera", "Skrill",
     "MomoRedirect", "KakaoPayRedirect", "GoPayRedirect", "GcashRedirect",
     "ApplePay", "ApplePayRedirect", "ApplePayThirdPartySdk", "DanaRedirect",
     "GooglePayRedirect", "GooglePayThirdPartySdk", "MobilePayRedirect",
     "PaypalSdk", "Paze", "SamsungPay", "TwintRedirect", "VippsRedirect",
     "TouchNGoRedirect", "WeChatPayQr", "CashappQr", "SwishQr", "Mifinity",
     "RevolutPay"}

WalletData == SupportedWallets \cup WalletsListedUnimplemented

SupportedBankRedirects == {"Giropay", "Ideal", "Trustly", "Eps", "Sofort"}

\* the bank redirects the payment_type and gateway matches list under
\* NotImplemented
BankRedirectsListedUnimplemented ==
    {"BancontactCard", "Bizum", "Blik", "Eft", "Interac",
     "OnlineBankingCzechRepublic", "OnlineBankingFinland",
     "OnlineBankingPoland", "OnlineBankingSlovakia", "OpenBankingUk",
     "Przelewy24", "OnlineBankingFpx", "OnlineBankingThailand",
     "LocalBankRedirect"}

BankRedirectData == SupportedBankRedirects \cup BankRedirectsListedUnimplemented

\* the pay-later variants the gateway_info match lists under NotImplemented
PayLatersListedUnimplemented ==
    {"KlarnaSdk", "AffirmRedirect", "AfterpayClearpayRedirect",
     "PayBrightRedirect", "WalleyRedirect", "AlmaRedirect", "AtomeRedirect",
     "BreadpayRedirect"}

PayLaterData == {"KlarnaRedirect"} \cup PayLatersListedUnimplemented

\* the top-level methods the gateway and gateway_info matches list under
\* NotImplemented
MethodsListedUnimplemented ==
    {"CardRedirect", "BankDebit", "BankTransfer", "Crypto", "Reward",
     "RealTimePayment", "MobilePayment", "Upi", "Voucher", "GiftCard",
     "OpenBanking", "CardToken", "NetworkToken",
     "CardDetailsForNetworkTransactionId"}

PaymentMethod ==
    {"Card", "MandatePayment", "Wallet", "BankRedirect", "PayLater"}
    \cup MethodsListedUnimplemented

CardIssuer ==
    {"AmericanExpress", "Master", "Maestro", "Discover", "Visa", "DinersClub",
     "JCB", "CarteBlanche", "CartesBancaires"}

(***************************************************************************)
(* Multisafepay: impl TryFrom<&BankNames> for MultisafepayBankNames        *)
(***************************************************************************)
SupportedBankNames ==
    {"AbnAmro", "AsnBank", "Bunq", "Ing", "Knab", "N26",
     "NationaleNederlanden", "Rabobank", "Regiobank", "Revolut", "SnsBank",
     "TriodosBank", "VanLanschot", "Yoursafe", "Handelsbanken"}

\* the canonical banks the match lists under NotSupported
BankNamesListedUnsupported ==
    {"AmericanExpress", "AffinBank", "AgroBank", "AllianceBank", "AmBank",
     "BankOfAmerica", "BankOfChina", "BankIslam", "BankMuamalat", "BankRakyat",
     "BankSimpananNasional", "Barclays", "BlikPSP", "CapitalOne", "Chase",
     "Citi", "CimbBank", "Discover", "NavyFederalCreditUnion",
     "PentagonFederalCreditUnion", "SynchronyBank", "WellsFargo",
     "HongLeongBank", "HsbcBank", "KuwaitFinanceHouse", "Moneyou",
     "ArzteUndApothekerBank", "AustrianAnadiBankAg", "BankAustria", "Bank99Ag",
     "BankhausCarlSpangler", "BankhausSchelhammerUndSchatteraAg",
     "BankMillennium", "BankPEKAOSA", "BawagPskAg", "BksBankAg",
     "BrullKallmusBankAg", "BtvVierLanderBank", "CapitalBankGraweGruppeAg",
     "CeskaSporitelna", "Dolomitenbank", "EasybankAg", "EPlatbyVUB",
     "ErsteBankUndSparkassen", "FrieslandBank",
     "HypoAlpeadriabankInternationalAg", "HypoNoeLbFurNiederosterreichUWien",
     "HypoOberosterreichSalzburgSteiermark", "HypoTirolBankAg",
     "HypoVorarlbergBankAg", "HypoBankBurgenlandAktiengesellschaft",
     "KomercniBanka", "MBank", "MarchfelderBank", "Maybank", "OberbankAg",
     "OsterreichischeArzteUndApothekerbank", "OcbcBank", "PayWithING",
     "PlaceZIPKO", "PlatnoscOnlineKartaPlatnicza", "PosojilnicaBankEGen",
     "PostovaBanka", "PublicBank", "RaiffeisenBankengruppeOsterreich",
     "RhbBank", "SchelhammerCapitalBankAg", "StandardCharteredBank",
     "SchoellerbankAg", "SpardaBankWien", "SporoPay", "SantanderPrzelew24",
     "TatraPay", "Viamo", "VolksbankGruppe", "VolkskreditbankAg",
     "VrBankBraunau", "UobBank", "PayWithAliorBank", "BankiSpoldzielcze",
     "PayWithInteligo", "BNPParibasPoland", "BankNowySA", "CreditAgricole",
     "PayWithBOS", "PayWithCitiHandlowy", "PayWithPlusBank", "ToyotaBank",
     "VeloBank", "ETransferPocztowy24", "PlusBank", "EtransferPocztowy24",
     "BankiSpbdzielcze", "BankNowyBfgSa", "GetinBank", "Blik", "NoblePay",
     "IdeaBank", "EnveloBank", "NestPrzelew", "MbankMtransfer", "Inteligo",
     "PbacZIpko", "BnpParibas", "BankPekaoSa", "VolkswagenBank", "AliorBank",
     "Boz", "BangkokBank", "KrungsriBank", "KrungThaiBank",
     "TheSiamCommercialBank", "KasikornBank", "OpenBankSuccess",
     "OpenBankFailure", "OpenBankCancelled", "Aib", "BankOfScotland",
     "DanskeBank", "FirstDirect", "FirstTrust", "Halifax", "Lloyds", "Monzo",
     "NatWest", "NationwideBank", "RoyalBankOfScotland", "Starling", "TsbBank",
     "TescoBank", "UlsterBank"}

BankNames == SupportedBankNames \cup BankNamesListedUnsupported

\* the serde name (issuer id) of each vendor bank
MultisafepayIssuerId(bank) ==
    CASE bank = "AbnAmro" -> "0031"
      [] bank = "AsnBank" -> "0761"
      [] bank = "Bunq" -> "4371"
      [] bank = "Ing" -> "0721"
      [] bank = "Knab" -> "0801"
      [] bank = "N26" -> "9926"
      [] bank = "NationaleNederlanden" -> "9927"
      [] bank = "Rabobank" -> "0021"
      [] bank = "Regiobank" -> "0771"
      [] bank = "Revolut" -> "1099"
      [] bank = "SnsBank" -> "0751"
      [] bank = "TriodosBank" -> "0511"
      [] bank = "VanLanschot" -> "0161"
      [] bank = "Yoursafe" -> "0806"
      [] bank = "Handelsbanken" -> "1235"

ROk(val) == [ok |-> TRUE, val |-> val]
NotImplemented(message) == [ok |-> FALSE, error |-> "NotImplemented", message |-> message]
NotSupported(message, connector) ==
    [ok |-> FALSE, error |-> "NotSupported", message |-> message, connector |-> connector]
MissingRequiredField(field_name) ==
    [ok |-> FALSE, error |-> "MissingRequiredField", field_name |-> field_name]
RequestEncodingFailed == [ok |-> FALSE, error |-> "RequestEncodingFailed"]

\* a mutant: two banks of the catalog become the same vendor bank
MultisafepayBankNamesTryFrom_Merged(bank) ==
    CASE bank \in SupportedBankNames \ {"Bunq"}
            -> ROk([bank |-> bank, issuer_id |-> MultisafepayIssuerId(bank)])
      [] bank = "Bunq"
            -> ROk([bank |-> "Ing", issuer_id |-> MultisafepayIssuerId("Ing")])
      [] bank \in BankNamesListedUnsupported
            -> NotSupported("BankRedirect", "Multisafepay")

\* a mutant: a bank outside the catalog silently becomes the first vendor bank
MultisafepayBankNamesTryFrom_Default(bank) ==
    IF bank \in SupportedBankNames
    THEN ROk([bank |-> bank, issuer_id |-> MultisafepayIssuerId(bank)])
    ELSE ROk([bank |-> "AbnAmro", issuer_id |-> MultisafepayIssuerId("AbnAmro")])

\* a vendor bank, as the enum variant and as it is serialized
MultisafepayBankNames(variant) ==
    [bank |-> variant, issuer_id |-> MultisafepayIssuerId(variant)]

MultisafepayBankNamesTryFrom(bank) ==
    CASE bank = "AbnAmro" -> ROk(MultisafepayBankNames("AbnAmro"))
      [] bank = "AsnBank" -> ROk(MultisafepayBankNames("AsnBank"))
      [] bank = "Bunq" -> ROk(MultisafepayBankNames("Bunq"))
      [] bank = "Ing" -> ROk(MultisafepayBankNames("Ing"))
      [] bank = "Knab" -> ROk(MultisafepayBankNames("Knab"))
      [] bank = "N26" -> ROk(MultisafepayBankNames("N26"))
      [] bank = "NationaleNederlanden" -> ROk(MultisafepayBankNames("NationaleNederlanden"))
      [] bank = "Rabobank" -> ROk(MultisafepayBankNames("Rabobank"))
      [] bank = "Regiobank" -> ROk(MultisafepayBankNames("Regiobank"))
      [] bank = "Revolut" -> ROk(MultisafepayBankNames("Revolut"))
      [] bank = "SnsBank" -> ROk(MultisafepayBankNames("SnsBank"))
      [] bank = "TriodosBank" -> ROk(MultisafepayBankNames("TriodosBank"))
      [] bank = "VanLanschot" -> ROk(MultisafepayBankNames("VanLanschot"))
      [] bank = "Yoursafe" -> ROk(MultisafepayBankNames("Yoursafe"))
      [] bank = "Handelsbanken" -> ROk(MultisafepayBankNames("Handelsbanken"))
      [] bank \in BankNamesListedUnsupported
            -> NotSupported("BankRedirect", "Multisafepay")

InitBank ==
    /\ bankInput \in BankNames
    /\ bankOutput = Pending
    /\ OutsideBankIdle

\* MultisafepayBankNames::try_from(&bank)
ConvertBankName ==
    /\ bankOutput = Pending
    /\ bankOutput' = MultisafepayBankNamesTryFrom(bankInput)
    /\ UNCHANGED <<bankInput, OutsideBank>>

NextBank == ConvertBankName

SpecBank == InitBank /\ [][NextBank]_vars

(***************************************************************************)
(* Multisafepay: the router data handed to the request builder             *)
(***************************************************************************)
\* what get_billing and the address getters find
BillingStates ==
    {"NoBilling", "NoAddress", "NoFirstName", "NoLine1", "NoLine2", "NoZip",
     "NoCity", "NoCountry", "Complete"}

NoVariant == "NoVariant"

PaymentMethodData(method, variant, card_issuer, card_exp_year_ok, card_exp_month, bank_name) ==
    [method |-> method, variant |-> variant, card_issuer |-> card_issuer,
     card_exp_year_ok |-> card_exp_year_ok, card_exp_month |-> card_exp_month,
     bank_name |-> bank_name]

\* card_exp_month as the caller sent it: two digits, or not a number
CardExpMonths == {"12", "1x"}

\* card_issuer is what get_card_issuer recognises in the card number (None:
\* no known issuer); bank_name is the bank of an Ideal redirect
PaymentMethodDatas ==
    {PaymentMethodData("Card", NoVariant, issuer, year_ok, month, None) :
        issuer \in Option(CardIssuer), year_ok \in BOOLEAN, month \in CardExpMonths}
    \cup {PaymentMethodData("Wallet", w, None, TRUE, "12", None) : w \in WalletData}
    \cup {PaymentMethodData("BankRedirect", b, None, TRUE, "12", None) :
        b \in BankRedirectData \ {"Ideal"}}
    \cup {PaymentMethodData("BankRedirect", "Ideal", None, TRUE, "12", bank) :
        bank \in Option(BankNames)}
    \cup {PaymentMethodData("PayLater", p, None, TRUE, "12", None) : p \in PayLaterData}
    \cup {PaymentMethodData(method, NoVariant, None, TRUE, "12", None) :
        method \in {"MandatePayment"} \cup MethodsListedUnimplemented}

\* the data a request needs besides the payment method, present or absent
RouterDatas ==
    [description : BOOLEAN, return_url : BOOLEAN, billing : BillingStates,
     billing_email : BOOLEAN, is_mandate_payment : BOOLEAN,
     connector_mandate_id : Option({"mandate_1"})]

\* the router data: item.router_data with its request.payment_method_data
Item(pmd, data) ==
    [method |-> pmd.method, variant |-> pmd.variant,
     card_issuer |-> pmd.card_issuer, card_exp_year_ok |-> pmd.card_exp_year_ok,
     card_exp_month |-> pmd.card_exp_month,
     bank_name |-> pmd.bank_name, billing_email |-> data.billing_email,
     description |-> data.description, return_url |-> data.return_url,
     billing |-> data.billing, is_mandate_payment |-> data.is_mandate_payment,
     connector_mandate_id |-> data.connector_mandate_id]

\* utils::get_unimplemented_payment_method_error_message
get_unimplemented_payment_method_error_message(connector) ==
    "Selected payment method through " \o connector

\* CardData::get_card_issuer
get_card_issuer(item) ==
    IF item.card_issuer.some THEN ROk(item.card_issuer.val)
    ELSE NotImplemented("Card Type")

\* CardData::get_card_expiry_year_2_digit
get_card_expiry_year_2_digit(item) ==
    IF item.card_exp_year_ok THEN ROk("30") ELSE RequestEncodingFailed

\* RouterData::get_description
get_description(item) ==
    IF item.description THEN ROk("order description")
    ELSE MissingRequiredField("description")

\* PaymentsAuthorizeRequestData::get_router_return_url
get_router_return_url(item) ==
    IF item.return_url THEN ROk("https://merchant.example/return")
    ELSE MissingRequiredField("return_url")

\* RouterData::get_billing_email
get_billing_email(item) ==
    IF item.billing_email THEN ROk("payer@example.com")
    ELSE MissingRequiredField("payment_method_data.billing.email")

(***************************************************************************)
(* Multisafepay: impl TryFrom<utils::CardIssuer> for Gateway               *)
(***************************************************************************)
GatewayTryFromCardIssuer_AllVisa(issuer) == ROk("Visa")

GatewayTryFromCardIssuer(issuer) ==
    CASE issuer = "AmericanExpress" -> ROk("Amex")
      [] issuer = "Master" -> ROk("MasterCard")
      [] issuer = "Maestro" -> ROk("Maestro")
      [] issuer = "Discover" -> ROk("Discover")
      [] issuer = "Visa" -> ROk("Visa")
      [] issuer \in {"DinersClub", "JCB", "CarteBlanche", "CartesBancaires"}
            -> NotImplemented(get_unimplemented_payment_method_error_message("Multisafe pay"))

\* #[serde(rename_all = "UPPERCASE")] with the two renames
GatewaySerialized(gateway) ==
    CASE gateway = "Amex" -> "AMEX"
      [] gateway = "CreditCard" -> "CREDITCARD"
      [] gateway = "Discover" -> "DISCOVER"
      [] gateway = "Maestro" -> "MAESTRO"
      [] gateway = "MasterCard" -> "MASTERCARD"
      [] gateway = "Visa" -> "VISA"
      [] gateway = "Klarna" -> "KLARNA"
      [] gateway = "Googlepay" -> "GOOGLEPAY"
      [] gateway = "Paypal" -> "PAYPAL"
      [] gateway = "Ideal" -> "IDEAL"
      [] gateway = "Giropay" -> "GIROPAY"
      [] gateway = "Trustly" -> "TRUSTLY"
      [] gateway = "Alipay" -> "ALIPAY"
      [] gateway = "WeChatPay" -> "WECHAT"
      [] gateway = "Eps" -> "EPS"
      [] gateway = "MbWay" -> "MBWAY"
      [] gateway = "Sofort" -> "DIRECTBANK"

(***************************************************************************)
(* Multisafepay: impl TryFrom<&MultisafepayRouterData<                     *)
(* &PaymentsAuthorizeRouterData>> for MultisafepayPaymentsRequest          *)
(***************************************************************************)
\* The value a match yields, with the kind of arm that yielded it:
\* "variant" for an arm that names the one variant, "family" for an arm that
\* takes every variant of a method, "wildcard" for the `_` arm.
Matched(val, arm) == [ok |-> TRUE, val |-> val, arm |-> arm]

\* a mutant: the wrong error variant is raised for an unsupported method
Unimplemented_AsNotSupported == NotSupported("Selected payment method", "multisafepay")

\* Err(errors::ConnectorError::NotImplemented(..))?
Unimplemented == NotImplemented(get_unimplemented_payment_method_error_message("multisafepay"))

\* a mutant: Ideal is sent through the redirect flow like the other banks
PaymentTypeOf_IdealRedirect(item) ==
    CASE item.method \in {"Card", "MandatePayment"} -> Matched("Direct", "variant")
      [] item.method = "Wallet" ->
            IF item.variant = "GooglePay" THEN Matched("Direct", "variant")
            ELSE IF item.variant \in SupportedWallets THEN Matched("Redirect", "variant")
            ELSE Unimplemented
      [] item.method = "BankRedirect" ->
            IF item.variant \in SupportedBankRedirects THEN Matched("Redirect", "variant")
            ELSE Unimplemented
      [] OTHER -> Matched("Redirect", "wildcard")

\* let payment_type = match payment_method_data { .. }
PaymentTypeOf(item) ==
    CASE item.method = "Card" -> Matched("Direct", "variant")
      [] item.method = "MandatePayment" -> Matched("Direct", "variant")
      [] item.method = "Wallet" ->
            (CASE item.variant = "GooglePay" -> Matched("Direct", "variant")
               [] item.variant = "PaypalRedirect" -> Matched("Redirect", "variant")
               [] item.variant = "AliPayRedirect" -> Matched("Redirect", "variant")
               [] item.variant = "WeChatPayRedirect" -> Matched("Redirect", "variant")
               [] item.variant = "MbWayRedirect" -> Matched("Redirect", "variant")
               [] item.variant \in WalletsListedUnimplemented -> Unimplemented)
      [] item.method = "BankRedirect" ->
            (CASE item.variant = "Giropay" -> Matched("Redirect", "variant")
               [] item.variant = "Ideal" -> Matched("Direct", "variant")
               [] item.variant = "Trustly" -> Matched("Redirect", "variant")
               [] item.variant = "Eps" -> Matched("Redirect", "variant")
               [] item.variant = "Sofort" -> Matched("Redirect", "variant")
               [] item.variant \in BankRedirectsListedUnimplemented -> Unimplemented)
      [] item.method = "PayLater" -> Matched("Redirect", "family")
      [] OTHER -> Matched("Redirect", "wildcard")

\* let gateway = match payment_method_data { .. }
GatewayOf(item) ==
    CASE item.method = "Card" ->
            LET issuer == get_card_issuer(item)
            IN  IF ~issuer.ok THEN issuer
                ELSE LET gateway == GatewayTryFromCardIssuer(issuer.val)
                     IN  IF ~gateway.ok THEN gateway
                         ELSE Matched(Some(gateway.val), "variant")
      [] item.method = "Wallet" ->
            (CASE item.variant = "GooglePay" -> Matched(Some("Googlepay"), "variant")
               [] item.variant = "PaypalRedirect" -> Matched(Some("Paypal"), "variant")
               [] item.variant = "AliPayRedirect" -> Matched(Some("Alipay"), "variant")
               [] item.variant = "WeChatPayRedirect" -> Matched(Some("WeChatPay"), "variant")
               [] item.variant = "MbWayRedirect" -> Matched(Some("MbWay"), "variant")
               [] item.variant \in WalletsListedUnimplemented -> Unimplemented)
      [] item.method = "BankRedirect" ->
            (CASE item.variant = "Giropay" -> Matched(Some("Giropay"), "variant")
               [] item.variant = "Ideal" -> Matched(Some("Ideal"), "variant")
               [] item.variant = "Trustly" -> Matched(Some("Trustly"), "variant")
               [] item.variant = "Eps" -> Matched(Some("Eps"), "variant")
               [] item.variant = "Sofort" -> Matched(Some("Sofort"), "variant")
               [] item.variant \in BankRedirectsListedUnimplemented -> Unimplemented)
      [] item.method = "PayLater" /\ item.variant = "KlarnaRedirect" ->
            Matched(Some("Klarna"), "variant")
      [] item.method = "MandatePayment" -> Matched(None, "variant")
      [] \/ item.method = "PayLater" /\ item.variant # "KlarnaRedirect"
         \/ item.method \in MethodsListedUnimplemented -> Unimplemented

\* the billing address read into the DeliveryObject
DeliveryOf(item) ==
    CASE item.billing = "NoBilling" -> MissingRequiredField("billing")
      [] item.billing = "NoAddress" -> MissingRequiredField("billing.address")
      [] item.billing = "NoFirstName" -> MissingRequiredField("address.first_name")
      [] item.billing = "NoLine1" -> MissingRequiredField("address.line1")
      [] item.billing = "NoLine2" -> MissingRequiredField("address.line2")
      [] item.billing = "NoZip" -> MissingRequiredField("address.zip")
      [] item.billing = "NoCity" -> MissingRequiredField("address.city")
      [] item.billing = "NoCountry" -> MissingRequiredField("address.country")
      [] item.billing = "Complete" ->
            ROk([first_name |-> "Ada", last_name |-> "Ada", address1 |-> "Main St",
                 house_number |-> "7", zip_code |-> "1011", city |-> "Amsterdam",
                 country |-> "NL"])

\* the value of a decimal digit, -1 for any other character
DigitValue(c) ==
    CASE c = "0" -> 0 [] c = "1" -> 1 [] c = "2" -> 2 [] c = "3" -> 3
      [] c = "4" -> 4 [] c = "5" -> 5 [] c = "6" -> 6 [] c = "7" -> 7
      [] c = "8" -> 8 [] c = "9" -> 9 [] OTHER -> -1

\* str::parse::<i32> on an unsigned decimal string: None when the string is
\* empty, holds a character that is no digit, or its value exceeds i32::MAX
RECURSIVE ParseDigits(_, _)
ParseDigits(s, acc) ==
    IF Len(s) = 0 THEN Some(acc)
    ELSE LET d == DigitValue(SubSeq(s, 1, 1))
         IN  IF d < 0 \/ acc * 10 + d > I32Max THEN None
             ELSE ParseDigits(SubSeq(s, 2, Len(s)), acc * 10 + d)

ParseI32(s) == IF Len(s) = 0 THEN None ELSE ParseDigits(s, 0)

\* Option::unwrap_or_default for i32
unwrap_or_default(opt) == IF opt.some THEN opt.val ELSE 0

CardInfo(year, month) ==
    [info |-> "Card",
     card_number |-> Some("4111111111111111"),
     card_expiry_date |-> Some(unwrap_or_default(ParseI32(year \o month))),
     card_cvc |-> Some("123"),
     card_holder_name |-> None, flexible_3d |-> None, moto |-> None,
     term_url |-> None]

\* let gateway_info = match payment_method_data { .. }
GatewayInfoOf(item) ==
    CASE item.method = "Card" ->
            LET year == get_card_expiry_year_2_digit(item)
            IN  IF ~year.ok THEN year ELSE ROk(Some(CardInfo(year.val, item.card_exp_month)))
      [] item.method = "Wallet" ->
            (CASE item.variant = "GooglePay" ->
                     ROk(Some([info |-> "Wallet", wallet |-> "GooglePay",
                               payment_token |-> Some("gpay_token")]))
               [] item.variant = "AliPayRedirect" ->
                     ROk(Some([info |-> "Wallet", wallet |-> "Alipay"]))
               [] item.variant = "PaypalRedirect" -> ROk(None)
               [] item.variant = "WeChatPayRedirect" ->
                     ROk(Some([info |-> "Wallet", wallet |-> "WeChatPay"]))
               [] item.variant = "MbWayRedirect" ->
                     ROk(Some([info |-> "Wallet", wallet |-> "MbWay"]))
               [] item.variant \in WalletsListedUnimplemented -> Unimplemented)
      [] item.method = "PayLater" ->
            (CASE item.variant = "KlarnaRedirect" ->
                     LET email == get_billing_email(item)
                     IN  IF ~email.ok THEN email
                         ELSE ROk(Some([info |-> "PayLater", email |-> Some(email.val)]))
               [] item.variant \in PayLatersListedUnimplemented -> Unimplemented)
      [] item.method = "BankRedirect" ->
            (CASE item.variant = "Ideal" ->
                     IF ~item.bank_name.some THEN MissingRequiredField("ideal.bank_name")
                     ELSE LET bank == MultisafepayBankNamesTryFrom(item.bank_name.val)
                          IN  IF ~bank.ok THEN bank
                              ELSE ROk(Some([info |-> "BankRedirect", bank_redirect |-> "Ideal",
                                             issuer_id |-> bank.val]))
               [] item.variant = "Trustly" ->
                     ROk(Some([info |-> "BankRedirect", bank_redirect |-> "Trustly"]))
               [] item.variant = "Eps" ->
                     ROk(Some([info |-> "BankRedirect", bank_redirect |-> "Eps"]))
               [] item.variant = "Sofort" ->
                     ROk(Some([info |-> "BankRedirect", bank_redirect |-> "Sofort"]))
               [] item.variant \in BankRedirectsListedUnimplemented \cup {"Giropay"} ->
                     ROk(None))
      [] item.method = "MandatePayment" -> ROk(None)
      [] item.method \in MethodsListedUnimplemented -> Unimplemented

\* seconds_active and days_active of every request
DaysActive == 30
SecondsActive == 259200

MultisafepayPaymentsRequestTryFrom(item) ==
    LET payment_type == PaymentTypeOf(item) IN
    IF ~payment_type.ok THEN payment_type ELSE
    LET gateway == GatewayOf(item) IN
    IF ~gateway.ok THEN gateway ELSE
    LET description == get_description(item) IN
    IF ~description.ok THEN description ELSE
    LET return_url == get_router_return_url(item) IN
    IF ~return_url.ok THEN return_url ELSE
    LET delivery == DeliveryOf(item) IN
    IF ~delivery.ok THEN delivery ELSE
    LET gateway_info == GatewayInfoOf(item) IN
    IF ~gateway_info.ok THEN gateway_info ELSE
    [ok |-> TRUE,
     request |->
        [payment_type |-> payment_type.val,
         gateway |-> gateway.val,
         order_id |-> "ref_1",
         currency |-> "EUR",
         amount |-> 1000,
         description |-> description.val,
         payment_options |->
            Some([notification_url |-> None, redirect_url |-> return_url.val,
                  cancel_url |-> return_url.val, close_window |-> None,
                  notification_method |-> None, settings |-> None,
                  template_id |-> None, allowed_countries |-> None]),
         customer |-> Some([email |-> None, reference |-> Some("ref_1")]),
         delivery |-> Some(delivery.val),
         gateway_info |-> gateway_info.val,
         checkout_options |-> None, shopping_cart |-> None, capture |-> None,
         items |-> None,
         recurring_model |->
            IF item.is_mandate_payment THEN Some("Unscheduled") ELSE None,
         recurring_id |-> item.connector_mandate_id,
         days_active |-> Some(DaysActive),
         seconds_active |-> Some(SecondsActive),
         var1 |-> None, var2 |-> None, var3 |-> None],
     arms |-> [payment_type |-> payment_type.arm, gateway |-> gateway.arm]]

InitAuth ==
    /\ authMethod \in PaymentMethodDatas
    /\ authData = Idle
    /\ authResult = Pending
    /\ OutsideAuthIdle

BuildAuthorizeRequest ==
    /\ authResult = Pending
    /\ \E data \in RouterDatas :
          /\ authData' = data
          /\ authResult' = MultisafepayPaymentsRequestTryFrom(Item(authMethod, data))
    /\ UNCHANGED <<authMethod, OutsideAuth>>

\* the item of the request that was built
authItem == Item(authMethod, authData)
Built == authResult # Pending

NextAuth == BuildAuthorizeRequest

SpecAuth == InitAuth /\ [][NextAuth]_vars

(***************************************************************************)
(* Multisafepay: the claims about the request builder                      *)
(***************************************************************************)
\* the variants the vendor does not support: every wallet, bank redirect and
\* pay-later variant and every top-level method other than the ones named
VendorUnsupported(pmd) ==
    \/ pmd.method = "Wallet"
         /\ pmd.variant \notin {"GooglePay", "PaypalRedirect", "AliPayRedirect",
                                "WeChatPayRedirect", "MbWayRedirect"}
    \/ pmd.method = "BankRedirect"
         /\ pmd.variant \notin {"Giropay", "Ideal", "Trustly", "Eps", "Sofort"}
    \/ pmd.method = "PayLater" /\ pmd.variant # "KlarnaRedirect"
    \/ pmd.method \notin {"Card", "Wallet", "BankRedirect", "PayLater", "MandatePayment"}

\* a card whose number shows no issuer the vendor has a gateway for
CardWithoutGateway(pmd) ==
    /\ pmd.method = "Card"
    /\ pmd.card_issuer \notin
          {Some("AmericanExpress"), Some("Master"), Some("Maestro"),
           Some("Discover"), Some("Visa")}

\* some data the request needs is absent from the router data
RequiredDataMissing ==
    \/ ~authData.description
    \/ ~authData.return_url
    \/ authData.billing # "Complete"
    \/ authMethod.method = "PayLater" /\ ~authData.billing_email
    \/ authMethod.method = "BankRedirect" /\ authMethod.variant = "Ideal"
         /\ authMethod.bank_name = None

IdealBankOutsideCatalog ==
    /\ authMethod.method = "BankRedirect" /\ authMethod.variant = "Ideal"
    /\ authMethod.bank_name # None
    /\ authMethod.bank_name.val \notin SupportedBankNames

CardYearMalformed == authMethod.method = "Card" /\ ~authMethod.card_exp_year_ok

\* C8 as claimed: for every payment-method variant the builder returns a
\* vendor request or a NotImplemented error.
C8_RequestOrNotImplemented ==
    Built => (authResult.ok \/ authResult.error = "NotImplemented")

\* C8 as amended: the builder always returns, and returns exactly one of a
\* vendor request and an error.  The error is NotImplemented exactly for the
\* variants (and card issuers) the vendor does not support; for a supported
\* variant it is MissingRequiredField when required data is absent,
\* NotSupported when an Ideal bank is outside the vendor catalog, or the
\* encoding error of a malformed card expiry year; a request is returned
\* exactly when none of these applies.
C8_RequestOrTypedError ==
    /\ ~Built => ENABLED BuildAuthorizeRequest
    /\ Built =>
          /\ authResult.ok <=> "request" \in DOMAIN authResult
          /\ authResult.ok <=> "error" \notin DOMAIN authResult
          /\ ~authResult.ok =>
                authResult.error \in {"NotImplemented", "MissingRequiredField",
                                      "NotSupported", "RequestEncodingFailed"}
          /\ (~authResult.ok /\ authResult.error = "NotImplemented")
                <=> (VendorUnsupported(authMethod) \/ CardWithoutGateway(authMethod))
          /\ (~authResult.ok /\ authResult.error = "MissingRequiredField")
                => RequiredDataMissing
          /\ (~authResult.ok /\ authResult.error = "NotSupported")
                => (IdealBankOutsideCatalog /\ authResult.connector = "Multisafepay"
                    /\ authResult.message = "BankRedirect")
          /\ (~authResult.ok /\ authResult.error = "RequestEncodingFailed")
                => CardYearMalformed
          /\ authResult.ok <=>
                ~(\/ VendorUnsupported(authMethod) \/ CardWithoutGateway(authMethod)
                  \/ RequiredDataMissing \/ IdealBankOutsideCatalog
                  \/ CardYearMalformed)

\* C8 witness: an Ideal redirect with all data present and a bank outside the
\* catalog is answered with NotSupported.
C8_Witness ==
    /\ Built /\ ~RequiredDataMissing
    /\ authMethod.variant = "Ideal" /\ authMethod.bank_name = Some("Monzo")
    /\ authResult = NotSupported("BankRedirect", "Multisafepay")

\* C9: every payment-method variant the vendor does not support yields a
\* NotImplemented error and never a request, whatever the other data is.
C9_UnsupportedNotImplemented ==
    (Built /\ VendorUnsupported(authMethod)) =>
        /\ ~authResult.ok
        /\ authResult.error = "NotImplemented"
        /\ "request" \notin DOMAIN authResult

\* C9 witness: a pay-later variant other than Klarna, with every piece of
\* data present, is answered with NotImplemented.
C9_Witness ==
    /\ Built /\ ~RequiredDataMissing
    /\ authMethod.method = "PayLater" /\ authMethod.variant = "AffirmRedirect"
    /\ ~authResult.ok /\ authResult.error = "NotImplemented"

\* the (type, gateway) pair the vendor request must carry, gateway as serialized
RoutedPair(pmd) ==
    CASE pmd.method = "Card" ->
            <<"Direct",
              Some(CASE pmd.card_issuer.val = "AmericanExpress" -> "AMEX"
                     [] pmd.card_issuer.val = "Master" -> "MASTERCARD"
                     [] pmd.card_issuer.val = "Maestro" -> "MAESTRO"
                     [] pmd.card_issuer.val = "Discover" -> "DISCOVER"
                     [] pmd.card_issuer.val = "Visa" -> "VISA")>>
      [] pmd.method = "MandatePayment" -> <<"Direct", None>>
      [] pmd.variant = "GooglePay" -> <<"Direct", Some("GOOGLEPAY")>>
      [] pmd.variant = "Ideal" -> <<"Direct", Some("IDEAL")>>
      [] pmd.variant = "PaypalRedirect" -> <<"Redirect", Some("PAYPAL")>>
      [] pmd.variant = "AliPayRedirect" -> <<"Redirect", Some("ALIPAY")>>
      [] pmd.variant = "WeChatPayRedirect" -> <<"Redirect", Some("WECHAT")>>
      [] pmd.variant = "MbWayRedirect" -> <<"Redirect", Some("MBWAY")>>
      [] pmd.variant = "Giropay" -> <<"Redirect", Some("GIROPAY")>>
      [] pmd.variant = "Trustly" -> <<"Redirect", Some("TRUSTLY")>>
      [] pmd.variant = "Eps" -> <<"Redirect", Some("EPS")>>
      [] pmd.variant = "Sofort" -> <<"Redirect", Some("DIRECTBANK")>>
      [] pmd.variant = "KlarnaRedirect" -> <<"Redirect", Some("KLARNA")>>

SerializedGateway(gateway) ==
    IF gateway.some THEN Some(GatewaySerialized(gateway.val)) ELSE None

IssuerGateway(issuer) ==
    CASE issuer = "AmericanExpress" -> "Amex"
      [] issuer = "Master" -> "MasterCard"
      [] issuer = "Maestro" -> "Maestro"
      [] issuer = "Discover" -> "Discover"
      [] issuer = "Visa" -> "Visa"

SupportedIssuers == {"AmericanExpress", "Master", "Maestro", "Discover", "Visa"}

UnsupportedIssuers == {"DinersClub", "JCB", "CarteBlanche", "CartesBancaires"}

\* C11: a card of a supported issuer with its other required data present
\* becomes a Direct request on the issuer's gateway whose gateway_info is a
\* card block with card number, expiry and CVC populated; a card of any other
\* issuer, and a wallet variant without vendor mapping, fail with
\* NotImplemented.
C11_CardRequestOrNotImplemented ==
    Built =>
      /\ ( /\ authMethod.method = "Card"
           /\ authMethod.card_issuer \in {Some(i) : i \in SupportedIssuers}
           /\ ~RequiredDataMissing /\ ~CardYearMalformed )
           => /\ authResult.ok
              /\ authResult.request.payment_type = "Direct"
              /\ authResult.request.gateway
                    = Some(IssuerGateway(authMethod.card_issuer.val))
              /\ authResult.request.gateway_info.some
              /\ LET card == authResult.request.gateway_info.val
                 IN  /\ card.info = "Card"
                     /\ card.card_number.some /\ card.card_number.val # ""
                     /\ card.card_expiry_date.some
                     /\ card.card_cvc.some /\ card.card_cvc.val # ""
                     /\ authMethod.card_exp_month = "12"
                           => card.card_expiry_date.val = 3012
      /\ ( /\ authMethod.method = "Card"
           /\ authMethod.card_issuer \in {Some(i) : i \in UnsupportedIssuers} )
           => (~authResult.ok /\ authResult.error = "NotImplemented")
      /\ ( /\ authMethod.method = "Wallet"
           /\ authMethod.variant \in WalletsListedUnimplemented )
           => (~authResult.ok /\ authResult.error = "NotImplemented")

\* C11 witness: a Visa card with all data present became a Direct request on
\* the Visa gateway with the expiry 3012 in its card block.
C11_Witness ==
    /\ Built /\ authResult.ok
    /\ authMethod.method = "Card" /\ authMethod.card_issuer = Some("Visa")
    /\ authResult.request.payment_type = "Direct"
    /\ authResult.request.gateway = Some("Visa")
    /\ authResult.request.gateway_info.val.info = "Card"
    /\ authResult.request.gateway_info.val.card_expiry_date = Some(3012)

(***************************************************************************)
(* Multisafepay: the claim about the bank-name mapping                     *)
(***************************************************************************)
\* the canonical bank a vendor bank stands for: the variant of the same name
CanonicalOfVendor(vendor) == vendor.bank

\* the issuer ids of the catalog, as serialized
CatalogIssuerIds == {MultisafepayIssuerId(b) : b \in SupportedBankNames}

\* C12: each of the 15 supported canonical banks maps to the vendor bank of
\* the same name, with an issuer id no other bank of the catalog has, so the
\* mapping followed by its inverse is the identity on the catalog; every
\* other canonical bank fails with NotSupported{"BankRedirect", "Multisafepay"}.
C12_BankNameRoundTrip ==
    /\ Cardinality(SupportedBankNames) = 15
    /\ Cardinality(CatalogIssuerIds) = 15
    /\ bankOutput \notin {Idle, Pending} =>
          IF bankInput \in SupportedBankNames
          THEN /\ bankOutput.ok
               /\ CanonicalOfVendor(bankOutput.val) = bankInput
               /\ \A other \in SupportedBankNames \ {bankInput} :
                     /\ MultisafepayBankNamesTryFrom(other).ok
                     /\ MultisafepayBankNamesTryFrom(other).val.bank # bankOutput.val.bank
                     /\ MultisafepayBankNamesTryFrom(other).val.issuer_id
                           # bankOutput.val.issuer_id
          ELSE bankOutput = NotSupported("BankRedirect", "Multisafepay")

\* C12 witness: Rabobank was mapped to the vendor's Rabobank, issuer 0021.
C12_Witness ==
    /\ bankInput = "Rabobank"
    /\ bankOutput = ROk([bank |-> "Rabobank", issuer_id |-> "0021"])

(***************************************************************************)
(* Multisafepay: the vendor responses the adapter parses                   *)
(***************************************************************************)
MultisafepayPaymentStatus ==
    {"Completed", "Declined", "Initialized", "Void", "Uncleared"}

\* impl From<MultisafepayPaymentStatus> for AttemptStatus
AttemptStatusFromPaymentStatus(item) ==
    CASE item = "Completed" -> "Charged"
      [] item = "Declined" -> "Failure"
      [] item = "Initialized" -> "AuthenticationPending"
      [] item = "Uncleared" -> "Pending"
      [] item = "Void" -> "Voided"

\* the texts a vendor sends as reason / reason_code, the empty text included
Reasons == {"", "Insufficient funds"}
ReasonCodes == {"", "1001"}
OrderIds == {"order_1"}
PaymentUrls == {"https://pay.example/redirect"}
RecurringIds == {"rec_1"}
HttpCodes == {200, 402}

\* Data, with the fields the parse reads
Data(status, reason, reason_code, payment_url, payment_details) ==
    [order_id |-> "order_1", status |-> status, reason |-> reason,
     reason_code |-> reason_code, payment_url |-> payment_url,
     payment_details |-> payment_details]

\* MultisafepayPaymentDetails, with the field the parse reads
MultisafepayPaymentDetails == [recurring_id : Option(RecurringIds)]

\* MultisafepayAuthResponse::PaymentResponse: every (success, status, reason,
\* reason_code) without redirect, and every (success, status) with each
\* payment_url and payment_details
PaymentResponses ==
    {[shape |-> "PaymentResponse", success |-> success,
      data |-> Data(status, reason, reason_code, None, None)] :
        success \in BOOLEAN, status \in Option(MultisafepayPaymentStatus),
        reason \in Option(Reasons), reason_code \in Option(ReasonCodes)}
    \cup
    {[shape |-> "PaymentResponse", success |-> success,
      data |-> Data(status, None, None, payment_url, payment_details)] :
        success \in BOOLEAN, status \in Option(MultisafepayPaymentStatus),
        payment_url \in Option(PaymentUrls),
        payment_details \in Option(MultisafepayPaymentDetails)}

\* MultisafepayAuthResponse::ErrorResponse / MultisafepayRefundResponse::ErrorResponse
ParsedErrorCodes == {-1, 1001, 1017, 1024, 10001}
ErrorResponses ==
    {[shape |-> "ErrorResponse", error_code |-> code, error_info |-> info] :
        code \in ParsedErrorCodes, info \in ErrorInfos}

MultisafepayAuthResponse == PaymentResponses \cup ErrorResponses

\* RefundData and RefundResponse
RefundIds == {0, 7731}
RefundResponses ==
    {[shape |-> "RefundResponse", success |-> success,
      data |-> [transaction_id |-> 55, refund_id |-> refund_id,
                order_id |-> order_id, error_code |-> error_code,
                error_info |-> error_info]] :
        success \in BOOLEAN, refund_id \in RefundIds,
        order_id \in Option(OrderIds), error_code \in Option({1001}),
        error_info \in Option(ErrorInfos)}

MultisafepayRefundResponse == RefundResponses \cup ErrorResponses

\* consts::NO_ERROR_CODE and consts::NO_ERROR_MESSAGE
NO_ERROR_CODE == "NO_ERROR_CODE"
NO_ERROR_MESSAGE == "NO_ERROR_MESSAGE"

RErr(error) == [ok |-> FALSE, err |-> error]

\* Option::unwrap_or
unwrap_or(opt, default) == IF opt.some THEN opt.val ELSE default

\* the attempt statuses utils::is_payment_failure takes for a failure
PaymentFailureStatuses ==
    {"AuthenticationFailed", "AuthorizationFailed", "CaptureFailed",
     "VoidFailed", "Failure"}

is_payment_failure(status) == status \in PaymentFailureStatuses

ErrorResponse(code, message, reason, status_code, attempt_status, connector_transaction_id) ==
    [code |-> code, message |-> message, reason |-> reason,
     status_code |-> status_code, attempt_status |-> attempt_status,
     connector_transaction_id |-> connector_transaction_id,
     network_advice_code |-> None, network_decline_code |-> None,
     network_error_message |-> None]

populate_error_reason(code, message, reason, http_code, attempt_status, connector_transaction_id) ==
    ErrorResponse(unwrap_or(code, NO_ERROR_CODE), unwrap_or(message, NO_ERROR_MESSAGE),
                  reason, http_code, attempt_status, connector_transaction_id)

(***************************************************************************)
(* Multisafepay: parsing a payment response into the router data           *)
(***************************************************************************)
\* ResponseRouterData: the vendor response, its http code and the router
\* data of the attempt (of which the parse reads nothing and keeps the rest)
ResponseRouterData(response, http_code, data) ==
    [response |-> response, http_code |-> http_code, data |-> data]

\* a mutant: the redirect is a POST form
RedirectForm_Post(url) == [endpoint |-> url, method |-> "Post"]

\* RedirectForm::from((url, Method::Get))
RedirectForm(url) == [endpoint |-> url, method |-> "Get"]

MandateReference(id) ==
    [connector_mandate_id |-> Some(id), payment_method_id |-> None,
     mandate_metadata |-> None, connector_mandate_request_reference_id |-> None]

\* payment_details.and_then(|d| d.recurring_id).map(|id| MandateReference {..})
MandateReferenceOf(payment_details) ==
    IF payment_details.some /\ payment_details.val.recurring_id.some
    THEN Some(MandateReference(payment_details.val.recurring_id.val))
    ELSE None

TransactionResponse(data) ==
    [resource_id |-> data.order_id,
     redirection_data |->
        IF data.payment_url.some THEN Some(RedirectForm(data.payment_url.val))
        ELSE None,
     mandate_reference |-> MandateReferenceOf(data.payment_details),
     connector_metadata |-> None, network_txn_id |-> None,
     connector_response_reference_id |-> Some(data.order_id),
     incremental_authorization_allowed |-> None, charges |-> None]

\* a mutant: a payload without status is always taken for pending authentication
DefaultStatus_Initialized(success) == "Initialized"

\* let default_status = if payment_response.success { .. } else { .. }
DefaultStatus(success) == IF success THEN "Initialized" ELSE "Declined"

\* a mutant: a declined payment is reported as a transaction
PaymentResponseOf_NeverError(payment_response, http_code, status) ==
    ROk(TransactionResponse(payment_response.data))

\* response: if utils::is_payment_failure(status) { Err(..) } else { Ok(..) }
PaymentResponseOf(payment_response, http_code, status) ==
    IF is_payment_failure(status)
    THEN RErr(populate_error_reason(payment_response.data.reason_code,
                                    payment_response.data.reason,
                                    payment_response.data.reason,
                                    http_code, Some(status),
                                    Some(payment_response.data.order_id)))
    ELSE ROk(TransactionResponse(payment_response.data))

\* Self { field: value, ..data }
StructUpdate(data, field, value) ==
    [f \in DOMAIN data \cup {field} |-> IF f = field THEN value ELSE data[f]]

\* a mutant: the looked-up status, or Failure, is written into the attempt
AuthErrorResponseArm_Overrides(item) ==
    LET attempt_status == AttemptStatusFromError(item.response)
    IN  [StructUpdate(item.data, "response",
                      RErr(populate_error_reason(
                             Some(ToString(item.response.error_code)),
                             Some(item.response.error_info),
                             Some(item.response.error_info),
                             item.http_code, attempt_status, None)))
            EXCEPT !.status = unwrap_or(attempt_status, "Failure")]

\* MultisafepayAuthResponse::ErrorResponse(error_response) => Ok(Self { .. })
AuthErrorResponseArm(item) ==
    LET error_response == item.response
        attempt_status == AttemptStatusFromError(error_response)
    IN  StructUpdate(item.data, "response",
                     RErr(populate_error_reason(
                            Some(ToString(error_response.error_code)),
                            Some(error_response.error_info),
                            Some(error_response.error_info),
                            item.http_code, attempt_status, None)))

\* the router data of a payment attempt, with the fields that tell it apart
PaymentsRouterData(status) ==
    [status |-> status, payment_id |-> "pay_1", attempt_id |-> "pay_1_1",
     connector_request_reference_id |-> "ref_1", response |-> Pending]

\* impl TryFrom<ResponseRouterData<F, MultisafepayAuthResponse, T,
\* PaymentsResponseData>> for RouterData
PaymentsRouterDataTryFrom(item) ==
    IF item.response.shape = "PaymentResponse"
    THEN LET payment_response == item.response
             status == AttemptStatusFromPaymentStatus(
                          unwrap_or(payment_response.data.status,
                                    DefaultStatus(payment_response.success)))
         IN  [StructUpdate(item.data, "response",
                           PaymentResponseOf(payment_response, item.http_code, status))
                 EXCEPT !.status = status]
    ELSE AuthErrorResponseArm(item)

(***************************************************************************)
(* Multisafepay: parsing a refund response into the router data            *)
(***************************************************************************)
\* vendor-local refund status, and impl From<RefundStatus> for enums::RefundStatus
RefundStatus == {"Succeeded", "Failed", "Processing"}

\* a mutant: a failed refund is reported as pending
RefundStatusFrom_FailedPending(item) ==
    CASE item = "Succeeded" -> "Success"
      [] item = "Failed" -> "Pending"
      [] item = "Processing" -> "Pending"

RefundStatusFrom(item) ==
    CASE item = "Succeeded" -> "Success"
      [] item = "Failed" -> "Failure"
      [] item = "Processing" -> "Pending"

\* a mutant: a payload that reports an error_code in its data is a failure
RefundsResponseData_ErrorCodeFails(refund_data) ==
    LET refund_status ==
           IF refund_data.success /\ ~refund_data.data.error_code.some
           THEN "Succeeded" ELSE "Failed"
    IN  [connector_refund_id |-> ToString(refund_data.data.refund_id),
         refund_status |-> RefundStatusFrom(refund_status)]

\* the RefundResponse arm of both refund parses
RefundsResponseData(refund_data) ==
    LET refund_status == IF refund_data.success THEN "Succeeded" ELSE "Failed"
    IN  [connector_refund_id |-> ToString(refund_data.data.refund_id),
         refund_status |-> RefundStatusFrom(refund_status)]

\* impl TryFrom<RefundsResponseRouterData<Execute, ..>> for RefundsRouterData<Execute>
RefundExecuteTryFrom(item) ==
    IF item.response.shape = "RefundResponse"
    THEN [response |-> ROk(RefundsResponseData(item.response))]
    ELSE LET error_response == item.response
             attempt_status == AttemptStatusFromError(error_response)
         IN  [response |->
                 RErr(ErrorResponse(ToString(error_response.error_code),
                                    error_response.error_info,
                                    Some(error_response.error_info),
                                    item.http_code, attempt_status, None))]

\* impl TryFrom<RefundsResponseRouterData<RSync, ..>> for RefundsRouterData<RSync>
RefundSyncTryFrom(item) ==
    IF item.response.shape = "RefundResponse"
    THEN [response |-> ROk(RefundsResponseData(item.response))]
    ELSE LET error_response == item.response
         IN  [response |->
                 RErr(populate_error_reason(
                        Some(ToString(error_response.error_code)),
                        Some(error_response.error_info),
                        Some(error_response.error_info),
                        item.http_code, None, None))]

(***************************************************************************)
(* Multisafepay: the responses of one payment attempt, or of one refund,   *)
(* parsed one after the other                                              *)
(***************************************************************************)
\* the status of an attempt no vendor response has been parsed for
InitialAttemptStatuses == {"Started", "AuthenticationPending"}

InitParse ==
    /\ parseFlow \in {"Authorize", "Execute", "RSync"}
    /\ IF parseFlow = "Authorize" THEN payStatus \in InitialAttemptStatuses
       ELSE payStatus = Idle
    /\ payPrev = Pending
    /\ payLeft = FALSE
    /\ parseItem = Pending
    /\ parseResult = Pending
    /\ OutsideParseIdle

\* RouterData::try_from(ResponseRouterData { response, data, http_code })
ParseAuthorizeResponse ==
    /\ parseFlow = "Authorize"
    /\ \E response \in MultisafepayAuthResponse, http_code \in HttpCodes :
          LET item == ResponseRouterData(response, http_code, PaymentsRouterData(payStatus))
              router_data == PaymentsRouterDataTryFrom(item)
          IN  /\ parseItem' = item
              /\ payStatus' = router_data.status
              /\ parseResult' = router_data.response
    /\ payPrev' = payStatus
    /\ payLeft' = (payLeft \/ payStatus \notin InitialAttemptStatuses)
    /\ UNCHANGED <<parseFlow, OutsideParse>>

\* RefundsRouterData::<Execute>::try_from(RefundsResponseRouterData { .. })
ParseRefundExecuteResponse ==
    /\ parseFlow = "Execute"
    /\ \E response \in MultisafepayRefundResponse, http_code \in HttpCodes :
          LET item == ResponseRouterData(response, http_code, [refund_id |-> "refund_1"])
          IN  /\ parseItem' = item
              /\ parseResult' = RefundExecuteTryFrom(item).response
    /\ UNCHANGED <<parseFlow, payStatus, payPrev, payLeft, OutsideParse>>

\* RefundsRouterData::<RSync>::try_from(RefundsResponseRouterData { .. })
ParseRefundSyncResponse ==
    /\ parseFlow = "RSync"
    /\ \E response \in MultisafepayRefundResponse, http_code \in HttpCodes :
          LET item == ResponseRouterData(response, http_code, [refund_id |-> "refund_1"])
          IN  /\ parseItem' = item
              /\ parseResult' = RefundSyncTryFrom(item).response
    /\ UNCHANGED <<parseFlow, payStatus, payPrev, payLeft, OutsideParse>>

NextParse ==
    \/ ParseAuthorizeResponse
    \/ ParseRefundExecuteResponse
    \/ ParseRefundSyncResponse

SpecParse == InitParse /\ [][NextParse]_vars

Parsed == parseItem # Pending
SuccessShaped == Parsed /\ parseItem.response.shape = "PaymentResponse"

(***************************************************************************)
(* Multisafepay: the claims about parsed responses                         *)
(***************************************************************************)
\* the canonical status of a success-shaped payload, from (data.status, success)
StatusOfPayload(status, success) ==
    CASE status = Some("Completed") -> "Charged"
      [] status = Some("Declined") -> "Failure"
      [] status = Some("Initialized") -> "AuthenticationPending"
      [] status = Some("Uncleared") -> "Pending"
      [] status = Some("Void") -> "Voided"
      [] status = None /\ success -> "AuthenticationPending"
      [] status = None /\ ~success -> "Failure"

\* every attempt status a router data can carry into a parse
PriorStatuses == InitialAttemptStatuses \cup AttemptStatus

\* C13: for a success-shaped payload the attempt status is the mapping of
\* data.status when present, else AuthenticationPending / Failure by the
\* success flag; no other payload field and no prior attempt status changes
\* it, and parsing the same response again yields the same output.
C13_StatusFromPayloadOnly ==
    SuccessShaped =>
      LET response == parseItem.response
      IN  /\ payStatus = StatusOfPayload(response.data.status, response.success)
          /\ \A other \in PaymentResponses :
                (other.data.status = response.data.status
                 /\ other.success = response.success)
                => PaymentsRouterDataTryFrom(
                      ResponseRouterData(other, parseItem.http_code,
                                         parseItem.data)).status = payStatus
          /\ \A prior \in PriorStatuses :
                LET again == PaymentsRouterDataTryFrom(
                                ResponseRouterData(response, parseItem.http_code,
                                                   PaymentsRouterData(prior)))
                IN  again.status = payStatus /\ again.response = parseResult

\* C13 witness: a payload without status and with success = true, parsed for
\* an attempt that was Charged, gave AuthenticationPending.
C13_Witness ==
    /\ SuccessShaped
    /\ parseItem.response.data.status = None /\ parseItem.response.success
    /\ payPrev = "Charged"
    /\ payStatus = "AuthenticationPending"

\* C14: for a success-shaped payload the parse returns an error envelope
\* exactly when the derived status is a failure status and a transaction
\* result otherwise, never both; the envelope carries the vendor reason_code
\* as code, the vendor reason as message and reason, the derived status as
\* attempt_status and the vendor order_id as connector_transaction_id.
C14_EnvelopeIffFailure ==
    SuccessShaped =>
      LET data == parseItem.response.data
      IN  /\ ~parseResult.ok <=> payStatus = "Failure"
          /\ parseResult.ok <=> "val" \in DOMAIN parseResult
          /\ parseResult.ok <=> "err" \notin DOMAIN parseResult
          /\ parseResult.ok =>
                /\ parseResult.val.resource_id = data.order_id
                /\ "code" \notin DOMAIN parseResult.val
          /\ ~parseResult.ok =>
                /\ data.reason_code.some => parseResult.err.code = data.reason_code.val
                /\ data.reason.some => parseResult.err.message = data.reason.val
                /\ parseResult.err.reason = data.reason
                /\ parseResult.err.attempt_status = Some(payStatus)
                /\ parseResult.err.connector_transaction_id = Some(data.order_id)
                /\ parseResult.err.status_code = parseItem.http_code

\* C14 witness: a declined payment with reason and reason_code became an
\* envelope carrying both.
C14_Witness ==
    /\ SuccessShaped
    /\ parseItem.response.data.status = Some("Declined")
    /\ ~parseResult.ok
    /\ parseResult.err.code = "1001"
    /\ parseResult.err.message = "Insufficient funds"
    /\ parseResult.err.attempt_status = Some("Failure")
    /\ parseResult.err.connector_transaction_id = Some("order_1")

\* what the vendor sent as code and as message of an error, None when omitted
VendorCode ==
    IF parseItem.response.shape = "ErrorResponse"
    THEN Some(ToString(parseItem.response.error_code))
    ELSE parseItem.response.data.reason_code

VendorMessage ==
    IF parseItem.response.shape = "ErrorResponse"
    THEN Some(parseItem.response.error_info)
    ELSE parseItem.response.data.reason

\* C15: every error envelope, on the authorize, refund-execute and
\* refund-sync paths and for both payload shapes, has a non-empty code and a
\* non-empty message; when the vendor omitted or left empty the code or the
\* message, the envelope carries the sentinel instead.
C15_EnvelopeNeverEmpty ==
    (Parsed /\ ~parseResult.ok) =>
        /\ parseResult.err.code # ""
        /\ parseResult.err.message # ""
        /\ VendorCode \in {None, Some("")} => parseResult.err.code = "NO_ERROR_CODE"
        /\ VendorMessage \in {None, Some("")}
              => parseResult.err.message = "NO_ERROR_MESSAGE"

\* C16: the vendor-local refund status maps one to one onto the three
\* canonical refund statuses: Succeeded -> Success, Failed -> Failure,
\* Processing -> Pending; and a parsed refund response carries the image of
\* its status.
C16_RefundStatusBijection ==
    /\ RefundStatusFrom("Succeeded") = "Success"
    /\ RefundStatusFrom("Failed") = "Failure"
    /\ RefundStatusFrom("Processing") = "Pending"
    /\ \A a, b \in RefundStatus : RefundStatusFrom(a) = RefundStatusFrom(b) => a = b
    /\ {RefundStatusFrom(a) : a \in RefundStatus} = {"Success", "Failure", "Pending"}
    /\ (Parsed /\ parseItem.response.shape = "RefundResponse") =>
          /\ parseResult.ok
          /\ parseResult.val.refund_status
                = IF parseItem.response.success THEN "Success" ELSE "Failure"

\* C16 witness: a refund sync whose payload has success = false was parsed
\* into the canonical Failure.
C16_Witness ==
    /\ parseFlow = "RSync" /\ Parsed
    /\ parseItem.response.shape = "RefundResponse" /\ ~parseItem.response.success
    /\ parseResult.ok /\ parseResult.val.refund_status = "Failure"
    /\ parseResult.val.connector_refund_id = "7731"

\* C17: the attempt status moves once, from the initial statuses into
\* {Charged, Failure, Voided, Pending}, and once it has left the initial
\* statuses no later parse sets it to AuthenticationPending again.
C17_NoReturnToPending ==
    (parseFlow = "Authorize" /\ Parsed) =>
        /\ (payPrev \in InitialAttemptStatuses
            /\ payStatus \notin InitialAttemptStatuses)
              => payStatus \in {"Charged", "Failure", "Voided", "Pending"}
        /\ payLeft => payStatus # "AuthenticationPending"

\* C18: once the attempt status is Charged, Failure or Voided, parsing any
\* further vendor response leaves it unchanged.
C18_TerminalStatusKept ==
    (parseFlow = "Authorize" /\ Parsed /\ payPrev \in {"Charged", "Failure", "Voided"})
        => payStatus = payPrev

(***************************************************************************)
(* MockDb: the merchant key stores behind a mutex                          *)
(***************************************************************************)
MerchantIds == {"merchant1", "merchant2"}

\* the master key of the deployment and another 32-byte key
MasterKeys == {"master_key", "zeros"}

\* the concurrent callers of the store
Tasks == {"t1", "t2"}

\* the AES key a caller generates for the key store it inserts
GeneratedKey(t) == "aes_" \o t

\* crypto_operation(Encrypt(..), .., key): the plain value with its ciphertext
Encrypt(plain, key) == [inner |-> plain, encrypted |-> [plain |-> plain, under |-> key]]

\* StorageError values
DuplicateValue(entity, key) ==
    [ok |-> FALSE, error |-> "DuplicateValue", entity |-> entity, key |-> key]
ValueNotFound(message) == [ok |-> FALSE, error |-> "ValueNotFound", message |-> message]
DecryptionError == [ok |-> FALSE, error |-> "DecryptionError"]
MockDbError == [ok |-> FALSE, error |-> "MockDbError"]

\* domain::MerchantKeyStore as a caller builds it
DomainMerchantKeyStore(merchant_id, plain, key) ==
    [merchant_id |-> merchant_id, key |-> Encrypt(plain, key),
     created_at |-> "2023-02-01 0:00"]

\* Conversion::convert: the diesel record of a domain key store
ConversionConvert(merchant_key_store) ==
    ROk([merchant_id |-> merchant_key_store.merchant_id,
         key |-> merchant_key_store.key.encrypted,
         created_at |-> merchant_key_store.created_at])

\* ReverseConversion: merchant_key.convert(state, key, identifier), which
\* decrypts the stored key with the key supplied
Convert(merchant_key, key) ==
    IF merchant_key.key.under = key
    THEN ROk([merchant_id |-> merchant_key.merchant_id,
              key |-> [inner |-> merchant_key.key.plain,
                       encrypted |-> merchant_key.key],
              created_at |-> merchant_key.created_at])
    ELSE DecryptionError

\* a mutant: the duplicate check never finds the merchant
HasMerchantId_Never(store, merchant_id) == FALSE

\* .iter().any(|merchant_key| merchant_key.merchant_id == merchant_id)
HasMerchantId(store, merchant_id) ==
    \E i \in 1..Len(store) : store[i].merchant_id = merchant_id

\* .iter().position(|mks| mks.merchant_id == *merchant_id)
Position(store, merchant_id) ==
    IF \E i \in 1..Len(store) : store[i].merchant_id = merchant_id
    THEN Some(CHOOSE i \in 1..Len(store) :
                 /\ store[i].merchant_id = merchant_id
                 /\ \A j \in 1..(i - 1) : store[j].merchant_id # merchant_id)
    ELSE None

\* a mutant: the lookup returns the first key store of the list
Find_First(store, merchant_id) ==
    IF Len(store) > 0 THEN Some(store[1]) ELSE None

\* .iter().find(|merchant_key| merchant_key.merchant_id == *merchant_id).cloned()
Find(store, merchant_id) ==
    LET index == Position(store, merchant_id)
    IN  IF index.some THEN Some(store[index.val]) ELSE None

\* Vec::remove(index)
Remove(store, index) ==
    SubSeq(store, 1, index - 1) \o SubSeq(store, index + 1, Len(store))

\* a task between two calls
TaskIdle == [pc |-> "idle"]

\* a call that has returned: its arguments, its result, the list as it was
\* when the call took the lock, and what the latest successful insert for
\* the merchant had returned by then
Returned(t, op, merchant_id, key, result, store_before, expected) ==
    Some([task |-> t, op |-> op, merchant_id |-> merchant_id, key |-> key,
          result |-> result, store_before |-> store_before, expected |-> expected])

InitMks ==
    /\ mksStore = <<>>
    /\ mksLock = None
    /\ mksTask = [t \in Tasks |-> TaskIdle]
    /\ mksInserted = [m \in MerchantIds |-> None]
    /\ mksReturned = None
    /\ OutsideMksIdle

\* the outcomes of Conversion::convert(..).await: the diesel record, or an
\* error the caller reports as MockDbError
ConversionOutcomes(merchant_key_store) ==
    {ConversionConvert(merchant_key_store), MockDbError}

\* a caller enters insert_merchant_key_store(state, merchant_key_store, key)
CallInsert(t) ==
    /\ mksTask[t] = TaskIdle
    /\ \E merchant_id \in MerchantIds, encrypted_with \in MasterKeys, key \in MasterKeys :
          mksTask' = [mksTask EXCEPT ![t] =
              [pc |-> "insert_lock", key |-> key,
               merchant_key_store |->
                  DomainMerchantKeyStore(merchant_id, GeneratedKey(t), encrypted_with)]]
    /\ mksReturned' = None
    /\ UNCHANGED <<mksStore, mksLock, mksInserted, OutsideMks>>

\* self.merchant_key_store.lock().await, then the duplicate check
InsertLockAndCheck(t) ==
    /\ mksTask[t].pc = "insert_lock"
    /\ mksLock = None
    /\ LET call == mksTask[t]
           merchant_id == call.merchant_key_store.merchant_id
       IN  IF HasMerchantId(mksStore, merchant_id)
           THEN /\ mksTask' = [mksTask EXCEPT ![t] = TaskIdle]
                /\ mksLock' = None
                /\ mksReturned' =
                      Returned(t, "insert", merchant_id, call.key,
                               DuplicateValue("merchant_key_store", Some(merchant_id)),
                               mksStore, None)
           ELSE /\ mksTask' = [mksTask EXCEPT ![t] = [call EXCEPT !.pc = "insert_convert"]]
                /\ mksLock' = Some(t)
                /\ mksReturned' = None
    /\ UNCHANGED <<mksStore, mksInserted, OutsideMks>>

\* Conversion::convert(merchant_key_store).await, then the push
InsertConvertAndPush(t) ==
    /\ mksTask[t].pc = "insert_convert"
    /\ mksLock = Some(t)
    /\ LET call == mksTask[t]
       IN  \E merchant_key \in ConversionOutcomes(call.merchant_key_store) :
              IF ~merchant_key.ok
              THEN /\ mksTask' = [mksTask EXCEPT ![t] = TaskIdle]
                   /\ mksLock' = None
                   /\ mksStore' = mksStore
                   /\ mksReturned' =
                         Returned(t, "insert", call.merchant_key_store.merchant_id,
                                  call.key, MockDbError, mksStore, None)
              ELSE /\ mksStore' = Append(mksStore, merchant_key.val)
                   /\ mksTask' = [mksTask EXCEPT ![t] =
                         [pc |-> "insert_return", key |-> call.key,
                          merchant_key |-> merchant_key.val]]
                   /\ mksLock' = mksLock
                   /\ mksReturned' = None
    /\ UNCHANGED <<mksInserted, OutsideMks>>

\* merchant_key.convert(state, key, ..).await, the return and the drop of the guard
InsertReturn(t) ==
    /\ mksTask[t].pc = "insert_return"
    /\ mksLock = Some(t)
    /\ LET call == mksTask[t]
           result == Convert(call.merchant_key, call.key)
       IN  /\ mksReturned' =
                 Returned(t, "insert", call.merchant_key.merchant_id, call.key, result,
                          SubSeq(mksStore, 1, Len(mksStore) - 1), None)
           /\ mksInserted' =
                 IF result.ok
                 THEN [mksInserted EXCEPT ![call.merchant_key.merchant_id] = Some(result.val)]
                 ELSE mksInserted
    /\ mksTask' = [mksTask EXCEPT ![t] = TaskIdle]
    /\ mksLock' = None
    /\ UNCHANGED <<mksStore, OutsideMks>>

\* a caller enters get_merchant_key_store_by_merchant_id(state, merchant_id, key)
CallGet(t) ==
    /\ mksTask[t] = TaskIdle
    /\ \E merchant_id \in MerchantIds, key \in MasterKeys :
          mksTask' = [mksTask EXCEPT ![t] =
              [pc |-> "get_lock", merchant_id |-> merchant_id, key |-> key]]
    /\ mksReturned' = None
    /\ UNCHANGED <<mksStore, mksLock, mksInserted, OutsideMks>>

\* .lock().await.iter().find(..).cloned().ok_or(ValueNotFound(..))?
GetLockAndFind(t) ==
    /\ mksTask[t].pc = "get_lock"
    /\ mksLock = None
    /\ LET call == mksTask[t]
           found == Find(mksStore, call.merchant_id)
       IN  IF ~found.some
           THEN /\ mksTask' = [mksTask EXCEPT ![t] = TaskIdle]
                /\ mksLock' = None
                /\ mksReturned' =
                      Returned(t, "get", call.merchant_id, call.key,
                               ValueNotFound("merchant_key_store"), mksStore,
                               mksInserted[call.merchant_id])
           ELSE /\ mksTask' = [mksTask EXCEPT ![t] =
                      [pc |-> "get_return", merchant_id |-> call.merchant_id,
                       key |-> call.key, found |-> found.val]]
                /\ mksLock' = Some(t)
                /\ mksReturned' = None
    /\ UNCHANGED <<mksStore, mksInserted, OutsideMks>>

\* .convert(state, key, ..).await, the return and the drop of the guard
GetReturn(t) ==
    /\ mksTask[t].pc = "get_return"
    /\ mksLock = Some(t)
    /\ LET call == mksTask[t]
       IN  mksReturned' =
              Returned(t, "get", call.merchant_id, call.key,
                       Convert(call.found, call.key), mksStore,
                       mksInserted[call.merchant_id])
    /\ mksTask' = [mksTask EXCEPT ![t] = TaskIdle]
    /\ mksLock' = None
    /\ UNCHANGED <<mksStore, mksInserted, OutsideMks>>

\* a caller enters delete_merchant_key_store_by_merchant_id(merchant_id)
CallDelete(t) ==
    /\ mksTask[t] = TaskIdle
    /\ \E merchant_id \in MerchantIds :
          mksTask' = [mksTask EXCEPT ![t] =
              [pc |-> "delete_lock", merchant_id |-> merchant_id]]
    /\ mksReturned' = None
    /\ UNCHANGED <<mksStore, mksLock, mksInserted, OutsideMks>>

\* .lock().await, position(..).ok_or(ValueNotFound(..))?, remove(index), Ok(true)
DeleteLockAndRemove(t) ==
    /\ mksTask[t].pc = "delete_lock"
    /\ mksLock = None
    /\ LET call == mksTask[t]
           index == Position(mksStore, call.merchant_id)
       IN  IF ~index.some
           THEN /\ mksReturned' =
                      Returned(t, "delete", call.merchant_id, None,
                               ValueNotFound("No merchant key store found for merchant_id = "
                                             \o call.merchant_id),
                               mksStore, None)
                /\ UNCHANGED <<mksStore, mksInserted>>
           ELSE /\ mksStore' = Remove(mksStore, index.val)
                /\ mksInserted' = [mksInserted EXCEPT ![call.merchant_id] = None]
                /\ mksReturned' =
                      Returned(t, "delete", call.merchant_id, None, ROk(TRUE),
                               mksStore, None)
    /\ mksTask' = [mksTask EXCEPT ![t] = TaskIdle]
    /\ mksLock' = None
    /\ UNCHANGED OutsideMks

NextMks ==
    \E t \in Tasks :
        \/ CallInsert(t)
        \/ InsertLockAndCheck(t)
        \/ InsertConvertAndPush(t)
        \/ InsertReturn(t)
        \/ CallGet(t)
        \/ GetLockAndFind(t)
        \/ GetReturn(t)
        \/ CallDelete(t)
        \/ DeleteLockAndRemove(t)

SpecMks == InitMks /\ [][NextMks]_vars

(***************************************************************************)
(* MockDb: the claims about the merchant key stores                        *)
(***************************************************************************)
InStore(store, merchant_id) ==
    \E i \in 1..Len(store) : store[i].merchant_id = merchant_id

\* C19: after any interleaving of concurrent inserts and deletes the list
\* holds at most one key store per merchant_id; an insert for a merchant_id
\* that is already present fails with DuplicateValue and adds no entry.
C19_OneKeyStorePerMerchant ==
    /\ \A i, j \in 1..Len(mksStore) :
          mksStore[i].merchant_id = mksStore[j].merchant_id => i = j
    /\ \A t \in Tasks :
          mksTask[t].pc = "insert_return" =>
             /\ mksLock = Some(t)
             /\ \A u \in Tasks \ {t} :
                   mksTask[u].pc \notin {"insert_convert", "insert_return", "get_return"}
    /\ (mksReturned.some /\ mksReturned.val.op = "insert") =>
          LET call == mksReturned.val
          IN  /\ InStore(call.store_before, call.merchant_id) =>
                    /\ ~call.result.ok
                    /\ call.result.error = "DuplicateValue"
                    /\ call.result.entity = "merchant_key_store"
                    /\ call.result.key = Some(call.merchant_id)
                    /\ mksStore = call.store_before
              /\ (~call.result.ok /\ call.result.error = "DuplicateValue")
                    => InStore(call.store_before, call.merchant_id)

\* C19 witness: t2's insert for merchant1 failed as a duplicate of the key
\* store t1 had inserted, while t1 waits for the lock with another insert
\* for merchant1.
C19_Witness ==
    /\ mksReturned.some
    /\ mksReturned.val.task = "t2" /\ mksReturned.val.op = "insert"
    /\ mksReturned.val.merchant_id = "merchant1"
    /\ ~mksReturned.val.result.ok /\ mksReturned.val.result.error = "DuplicateValue"
    /\ Len(mksStore) = 1 /\ mksStore[1].key.plain = "aes_t1"
    /\ mksTask["t1"].pc = "insert_lock"
    /\ mksTask["t1"].merchant_key_store.merchant_id = "merchant1"

\* C20: after a successful insert for merchant m and until m is deleted, a
\* get for m with the same master key returns a key store with the same
\* merchant_id and the same key as the insert returned; a get for a merchant
\* that is not in the store returns ValueNotFound, and a get with a
\* different master key returns an error.
C20_GetReturnsInserted ==
    (mksReturned.some /\ mksReturned.val.op = "get") =>
        LET call == mksReturned.val
            inserted == call.expected
        IN  /\ (inserted.some /\ call.key = inserted.val.key.encrypted.under) =>
                  /\ call.result.ok
                  /\ call.result.val.merchant_id = inserted.val.merchant_id
                  /\ call.result.val.merchant_id = call.merchant_id
                  /\ call.result.val.key = inserted.val.key
            /\ ~InStore(call.store_before, call.merchant_id) =>
                  call.result = ValueNotFound("merchant_key_store")
            /\ (inserted.some /\ call.key # inserted.val.key.encrypted.under) =>
                  (~call.result.ok /\ call.result.error = "DecryptionError")

\* C20 witness: with two merchants stored, t1's get for merchant2 returned
\* the key t2 had inserted for it.
C20_Witness ==
    /\ mksReturned.some
    /\ mksReturned.val.task = "t1" /\ mksReturned.val.op = "get"
    /\ mksReturned.val.merchant_id = "merchant2"
    /\ Len(mksStore) = 2 /\ mksStore[1].merchant_id = "merchant1"
    /\ mksReturned.val.expected.some
    /\ mksReturned.val.result.ok
    /\ mksReturned.val.result.val.key.inner = "aes_t2"

(***************************************************************************)
(* Multisafepay: the claim about the partition of the error codes          *)
(***************************************************************************)
AuthenticationFailedCodes ==
    {10001, 5001} \cup (1002..1008) \cup (1010..1013) \cup {1015, 1016, 1018}
    \cup (1025..1032) \cup {1035, 1036}

FailureCodes == {1022, 1024, 1034}

\* C22: the error-code table maps 10001, 1002-1008, 1010-1013, 1015, 1016,
\* 1018, 1025-1032, 1035, 1036 and 5001 to AuthenticationFailed, 1022, 1024
\* and 1034 to Failure, 1017 to AuthorizationFailed and every other code
\* (1001, 1009, 1014, 1019-1021, 1023 and 1033 included) to None; each code
\* has exactly one outcome.
C22_TablePartition ==
    /\ AuthenticationFailedCodes \cap FailureCodes = {}
    /\ 1017 \notin AuthenticationFailedCodes \cup FailureCodes
    /\ {1001, 1009, 1014, 1019, 1020, 1021, 1023, 1033}
          \cap (AuthenticationFailedCodes \cup FailureCodes \cup {1017}) = {}
    /\ errOutput \notin {Idle, Pending} =>
          errOutput =
             CASE errInput.error_code \in AuthenticationFailedCodes
                     -> Some("AuthenticationFailed")
               [] errInput.error_code \in FailureCodes -> Some("Failure")
               [] errInput.error_code = 1017 -> Some("AuthorizationFailed")
               [] OTHER -> None

\* C22 witness: code 1033, a gap between 1032 and 1034, looked up to None.
C22_Witness ==
    /\ errInput # Idle /\ errInput.error_code = 1033
    /\ errOutput = None

\* the outcome the error-code table gives a code
TableOutcome(error_code) ==
    CASE error_code \in AuthenticationFailedCodes -> Some("AuthenticationFailed")
      [] error_code \in FailureCodes -> Some("Failure")
      [] error_code = 1017 -> Some("AuthorizationFailed")
      [] OTHER -> None

ErrorShaped ==
    parseFlow = "Authorize" /\ Parsed /\ parseItem.response.shape = "ErrorResponse"

\* C23: parsing an error-shaped authorize response leaves every field of the
\* incoming router data, its status included, unchanged; only the response
\* becomes a canonical error whose code is the vendor error_code, whose
\* message and reason are the vendor error_info, whose attempt_status is the
\* error-code lookup (None for an unknown code) and whose
\* connector_transaction_id is absent.
C23_ErrorShapeKeepsAttempt ==
    ErrorShaped =>
        LET incoming == parseItem.data
            returned == PaymentsRouterDataTryFrom(parseItem)
            vendor == parseItem.response
        IN  /\ payStatus = payPrev
            /\ DOMAIN returned = DOMAIN incoming
            /\ \A f \in DOMAIN incoming \ {"response"} : returned[f] = incoming[f]
            /\ returned.response = parseResult
            /\ ~parseResult.ok
            /\ parseResult.err.code = ToString(vendor.error_code)
            /\ parseResult.err.message = vendor.error_info
            /\ parseResult.err.reason = Some(vendor.error_info)
            /\ parseResult.err.attempt_status = TableOutcome(vendor.error_code)
            /\ parseResult.err.connector_transaction_id = None
            /\ parseResult.err.status_code = parseItem.http_code

\* C23 witness: an error payload with code 1017, parsed for an attempt that
\* was Charged, left it Charged and reported AuthorizationFailed in the
\* error only.
C23_Witness ==
    /\ ErrorShaped
    /\ parseItem.response.error_code = 1017
    /\ payPrev = "Charged" /\ payStatus = "Charged"
    /\ parseResult.err.code = "1017"
    /\ parseResult.err.attempt_status = Some("AuthorizationFailed")

\* the payload of the latest parse carries payment_details.recurring_id
HasRecurringId ==
    /\ parseItem.response.data.payment_details.some
    /\ parseItem.response.data.payment_details.val.recurring_id.some

\* C25 as claimed: whenever a success-shaped authorize response carries a
\* payment URL the result contains a GET redirect form to that URL, whenever
\* it carries payment_details.recurring_id the result contains a mandate
\* reference with that id, and when the field is absent that part is absent.
C25_RedirectAndMandateAlways ==
    SuccessShaped =>
        LET data == parseItem.response.data
        IN  /\ data.payment_url.some =>
                  /\ parseResult.ok
                  /\ parseResult.val.redirection_data.some
                  /\ parseResult.val.redirection_data.val.endpoint = data.payment_url.val
                  /\ parseResult.val.redirection_data.val.method = "Get"
            /\ HasRecurringId =>
                  /\ parseResult.ok
                  /\ parseResult.val.mandate_reference.some
                  /\ parseResult.val.mandate_reference.val.connector_mandate_id
                        = data.payment_details.val.recurring_id
            /\ (parseResult.ok /\ ~data.payment_url.some)
                  => parseResult.val.redirection_data = None
            /\ (parseResult.ok /\ ~HasRecurringId)
                  => parseResult.val.mandate_reference = None

\* C25 as amended: the same, for the responses whose derived status is not a
\* failure status; when it is one, the result is the error envelope, which
\* has neither a redirect form nor a mandate reference, whatever the payload
\* carries.
C25_RedirectAndMandateUnlessFailure ==
    SuccessShaped =>
        LET data == parseItem.response.data
        IN  /\ parseResult.ok <=> payStatus # "Failure"
            /\ parseResult.ok =>
                  /\ data.payment_url.some =>
                        /\ parseResult.val.redirection_data.some
                        /\ parseResult.val.redirection_data.val.endpoint
                              = data.payment_url.val
                        /\ parseResult.val.redirection_data.val.method = "Get"
                  /\ ~data.payment_url.some => parseResult.val.redirection_data = None
                  /\ HasRecurringId =>
                        /\ parseResult.val.mandate_reference.some
                        /\ parseResult.val.mandate_reference.val.connector_mandate_id
                              = data.payment_details.val.recurring_id
                  /\ ~HasRecurringId => parseResult.val.mandate_reference = None
            /\ ~parseResult.ok =>
                  /\ "redirection_data" \notin DOMAIN parseResult.err
                  /\ "mandate_reference" \notin DOMAIN parseResult.err

\* C25 witness: a response with both a payment URL and a recurring id was
\* parsed into a result with the redirect form and the mandate reference.
C25_Witness ==
    /\ SuccessShaped /\ parseResult.ok
    /\ parseResult.val.redirection_data
          = Some([endpoint |-> "https://pay.example/redirect", method |-> "Get"])
    /\ parseResult.val.mandate_reference.some
    /\ parseResult.val.mandate_reference.val.connector_mandate_id = Some("rec_1")

\* C29: both refund parses derive the refund status of a refund-shaped
\* payload from the success flag alone, Success when it is true and Failure
\* when it is false, with the vendor refund_id as connector refund id; they
\* never yield Pending, and the two flows give the same result for the same
\* payload.
C29_RefundStatusFromSuccess ==
    (Parsed /\ parseFlow \in {"Execute", "RSync"}
     /\ parseItem.response.shape = "RefundResponse") =>
        LET payload == parseItem.response
        IN  /\ parseResult.ok
            /\ parseResult.val.refund_status
                  = IF payload.success THEN "Success" ELSE "Failure"
            /\ parseResult.val.refund_status # "Pending"
            /\ parseResult.val.connector_refund_id = ToString(payload.data.refund_id)
            /\ RefundExecuteTryFrom(parseItem).response = parseResult
            /\ RefundSyncTryFrom(parseItem).response = parseResult
            /\ \A other \in RefundResponses :
                  other.success = payload.success =>
                     RefundExecuteTryFrom(
                        ResponseRouterData(other, parseItem.http_code, parseItem.data)
                     ).response.val.refund_status = parseResult.val.refund_status

\* C29 witness: the Execute parse of a payload with success = true and an
\* error_code in its data gave Success with the refund id 7731.
C29_Witness ==
    /\ parseFlow = "Execute" /\ Parsed
    /\ parseItem.response.shape = "RefundResponse"
    /\ parseItem.response.success /\ parseItem.response.data.error_code.some
    /\ parseResult = ROk([connector_refund_id |-> "7731", refund_status |-> "Success"])


(***************************************************************************)
(* Analytics: the quantile level of a compiled Percentile                  *)
(***************************************************************************)
\* the characters of s before the first occurrence of the character c
RECURSIVE Before(_, _)
Before(s, c) ==
    IF Len(s) = 0 \/ SubSeq(s, 1, 1) = c THEN ""
    ELSE SubSeq(s, 1, 1) \o Before(SubSeq(s, 2, Len(s)), c)

RECURSIVE Pow10(_)
Pow10(n) == IF n = 0 THEN 1 ELSE 10 * Pow10(n - 1)

\* the fraction digits d of the level "0.d" in "quantilesExact(0.d)(..)[1].."
LevelDigits(text) == Before(SubSeq(text, Len("quantilesExact(0.") + 1, Len(text)), ")")

\* the level 0.d as the fraction num / den
Level(text) ==
    LET d == LevelDigits(text)
    IN  [num |-> ParseDigits(d, 0).val, den |-> Pow10(Len(d))]

SameLevel(a, b) == a.num * b.den = b.num * a.den

\* the percentile a parameter stands for: None is the median
EffectivePercentile(percentile) == IF percentile.some THEN percentile.val ELSE 50

\* C26: a compiled Percentile is an exact-quantile aggregate whose level is
\* p / 100 for its percentile parameter p (None standing for 50), and no
\* parameter standing for another percentile compiles to the same level.
C26_LevelIsPercentile ==
    (Compiled /\ IsAggregate("Percentile") /\ sqlExpr.field.valid) =>
        LET p == EffectivePercentile(sqlExpr.percentile)
            level == Level(sqlLast.result.text)
        IN  /\ sqlLast.result.ok
            /\ SameLevel(level, [num |-> p, den |-> 100])
            /\ \A q \in Percentiles :
                  EffectivePercentile(q) # p =>
                      ~SameLevel(level,
                          Level(ToSql([sqlExpr EXCEPT !.percentile = q],
                                      sqlLast.table_engine).text))

(***************************************************************************)
(* Mock store: an insert that returns an error                             *)
(***************************************************************************)
\* C27: when insert_merchant_key_store returns an error (a duplicate, a failed
\* conversion or a failed decryption), the stored list is the list the call
\* found when it took the lock.
C27_FailedInsertKeepsStore ==
    (mksReturned.some /\ mksReturned.val.op = "insert" /\ ~mksReturned.val.result.ok) =>
        mksStore = mksReturned.val.store_before


(***************************************************************************)
(* Store: the merchant key store behind the accounts cache                 *)
(* (impl MerchantKeyStoreInterface for Store, feature accounts_cache)      *)
(***************************************************************************)
MaxInserts == 2

\* format!("merchant_key_store_{}", merchant_id.get_string_repr())
KeyStoreCacheKey(merchant_id) == "merchant_key_store_" \o merchant_id

CacheKeys == {KeyStoreCacheKey(merchant_id) : merchant_id \in MerchantIds}

\* the error a failed statement is reported as: StorageError::from(error)
DatabaseError(kind) == [ok |-> FALSE, error |-> "DatabaseError", kind |-> kind]

\* the row construct_new().insert(&conn) stores for a key store created now
NewKeyStoreRow(merchant_id, key, created_at) ==
    [merchant_id |-> merchant_id,
     key |-> Encrypt("aes_key", key).encrypted,
     created_at |-> created_at]

\* a Store call that has returned
StoreReturned(t, op, merchant_id, result, hit, served, deleted_before) ==
    Some([task |-> t, op |-> op, merchant_id |-> merchant_id, result |-> result,
          hit |-> hit, served |-> served, deleted_before |-> deleted_before])

InitAcc ==
    /\ accDb = [merchant_id \in MerchantIds |-> None]
    /\ accCache = [cache_key \in CacheKeys |-> None]
    /\ accTask = [t \in Tasks |-> TaskIdle]
    /\ accDeleted = {}
    /\ accReturned = None
    /\ accClock = 0
    /\ OutsideAccIdle

\* insert_merchant_key_store: the insert statement and the conversion of the
\* stored row; the cache is not touched
StoreInsert(t) ==
    /\ accTask[t] = TaskIdle
    /\ accClock < MaxInserts
    /\ \E merchant_id \in MerchantIds, key \in MasterKeys :
          LET row == NewKeyStoreRow(merchant_id, key, accClock)
          IN  IF accDb[merchant_id].some
              THEN /\ accDb' = accDb
                   /\ accClock' = accClock
                   /\ accReturned' =
                         StoreReturned(t, "insert", merchant_id,
                                       DatabaseError("UniqueViolation"),
                                       FALSE, None, accDeleted)
              ELSE /\ accDb' = [accDb EXCEPT ![merchant_id] = Some(row)]
                   /\ accClock' = accClock + 1
                   /\ accReturned' =
                         StoreReturned(t, "insert", merchant_id, Convert(row, key),
                                       FALSE, None, accDeleted)
    /\ UNCHANGED <<accCache, accTask, accDeleted, OutsideAcc>>

\* cache.get_val(key) of get_or_populate_in_memory
CacheGetVal(cache, cache_key) == cache[cache_key]

\* get_merchant_key_store_by_merchant_id: get_or_populate_in_memory looks the
\* key up; a cached value is converted and returned, a miss goes on to fetch_func
GetLookup(t) ==
    /\ accTask[t] = TaskIdle
    /\ \E merchant_id \in MerchantIds, key \in MasterKeys :
          LET cache_val == CacheGetVal(accCache, KeyStoreCacheKey(merchant_id))
          IN  IF cache_val.some
              THEN /\ accTask' = accTask
                   /\ accReturned' =
                         StoreReturned(t, "get", merchant_id,
                                       Convert(cache_val.val, key), TRUE,
                                       cache_val, accDeleted)
              ELSE /\ accTask' = [accTask EXCEPT ![t] =
                         [pc |-> "get_fetch", merchant_id |-> merchant_id,
                          key |-> key, deleted_before |-> accDeleted]]
                   /\ accReturned' = None
    /\ UNCHANGED <<accDb, accCache, accDeleted, accClock, OutsideAcc>>

\* fetch_func: find_by_merchant_id on a read connection; a missing row is an
\* error that get_or_populate_in_memory passes on without populating
GetFetch(t) ==
    /\ accTask[t].pc = "get_fetch"
    /\ LET call == accTask[t]
           row == accDb[call.merchant_id]
       IN  IF row.some
           THEN /\ accTask' = [accTask EXCEPT ![t] =
                      [pc |-> "get_populate", merchant_id |-> call.merchant_id,
                       key |-> call.key, deleted_before |-> call.deleted_before,
                       val |-> row.val]]
                /\ accReturned' = None
           ELSE /\ accTask' = [accTask EXCEPT ![t] = TaskIdle]
                /\ accReturned' =
                      StoreReturned(t, "get", call.merchant_id,
                                    DatabaseError("NotFound"), FALSE, None,
                                    call.deleted_before)
    /\ UNCHANGED <<accDb, accCache, accDeleted, accClock, OutsideAcc>>

\* cache.push(key, val.clone()) of get_or_populate_in_memory, the conversion
\* of the fetched row and the return
GetPopulate(t) ==
    /\ accTask[t].pc = "get_populate"
    /\ LET call == accTask[t]
       IN  /\ accCache' = [accCache EXCEPT
                 ![KeyStoreCacheKey(call.merchant_id)] = Some(call.val)]
           /\ accReturned' =
                 StoreReturned(t, "get", call.merchant_id,
                               Convert(call.val, call.key), FALSE,
                               Some(call.val), call.deleted_before)
    /\ accTask' = [accTask EXCEPT ![t] = TaskIdle]
    /\ UNCHANGED <<accDb, accDeleted, accClock, OutsideAcc>>

\* delete_merchant_key_store_by_merchant_id: publish_and_redact first awaits
\* delete_func, the delete statement on a write connection
DeleteFunc(t) ==
    /\ accTask[t] = TaskIdle
    /\ \E merchant_id \in MerchantIds :
          /\ accTask' = [accTask EXCEPT ![t] =
                [pc |-> "delete_redact", merchant_id |-> merchant_id,
                 deleted |-> accDb[merchant_id]]]
          /\ accDb' = [accDb EXCEPT ![merchant_id] = None]
    /\ accReturned' = None
    /\ UNCHANGED <<accCache, accDeleted, accClock, OutsideAcc>>

\* the invalidation of the key that publish_and_redact runs after delete_func
Redact(cache, cache_key) == [cache EXCEPT ![cache_key] = None]

\* publish_and_redact invalidates CacheKind::Accounts(key) and returns the
\* outcome of delete_func
DeleteRedact(t) ==
    /\ accTask[t].pc = "delete_redact"
    /\ LET call == accTask[t]
       IN  /\ accCache' = Redact(accCache, KeyStoreCacheKey(call.merchant_id))
           /\ accDeleted' =
                 IF call.deleted.some THEN accDeleted \cup {call.deleted.val}
                 ELSE accDeleted
           /\ accReturned' =
                 StoreReturned(t, "delete", call.merchant_id, ROk(call.deleted.some),
                               FALSE, None, accDeleted)
    /\ accTask' = [accTask EXCEPT ![t] = TaskIdle]
    /\ UNCHANGED <<accDb, accClock, OutsideAcc>>

NextAcc ==
    \E t \in Tasks :
        \/ StoreInsert(t)
        \/ GetLookup(t)
        \/ GetFetch(t)
        \/ GetPopulate(t)
        \/ DeleteFunc(t)
        \/ DeleteRedact(t)

SpecAcc == InitAcc /\ [][NextAcc]_vars

\* C21: a get for merchant m is answered under the cache key
\* "merchant_key_store_<m>", and once a delete for m has completed, a get for m
\* that starts afterwards is not served the deleted key store from the cache,
\* also when other gets for m ran concurrently with the delete.
C21_NoDeletedKeyStoreServed ==
    (accReturned.some /\ accReturned.val.op = "get" /\ accReturned.val.hit) =>
        /\ accReturned.val.served = accCache[KeyStoreCacheKey(accReturned.val.merchant_id)]
        /\ accReturned.val.served.val \notin accReturned.val.deleted_before


(***************************************************************************)
(* Multisafepay: decoding a response body into the untagged enums          *)
(***************************************************************************)
\* JSON values: a member that is missing, null, and the typed values
JAbsent == [json |-> "absent"]
JNull == [json |-> "null"]
JBool(b) == [json |-> "bool", bool |-> b]
\* an integer literal, by its decimal digits
JInteger(digits) == [json |-> "integer", digits |-> digits]
JString(s) == [json |-> "string", str |-> s]
JObject(members) == [json |-> "object", members |-> members]

\* the bodies decoded: each top-level member absent or present with a value of
\* the type the error shape and the success shape expect, or of another type
JsonErrorCodes ==
    {JAbsent, JInteger("1001"), JInteger("2147483647"), JInteger("2147483648"),
     JString("1001")}
JsonErrorInfos == {JAbsent, JString("Invalid amount"), JNull}
JsonSuccesses == {JAbsent, JBool(TRUE), JBool(FALSE)}
JsonPaymentDatas ==
    {JAbsent,
     JObject([order_id |-> JString("order_1"), status |-> JString("completed")]),
     JObject([order_id |-> JString("order_1"), status |-> JAbsent]),
     JObject([order_id |-> JAbsent, status |-> JString("declined")])}
JsonRefundDatas ==
    {JAbsent,
     JObject([transaction_id |-> JInteger("55"), refund_id |-> JInteger("7731")]),
     JObject([transaction_id |-> JInteger("55"), refund_id |-> JAbsent])}

Payload(error_code, error_info, success, data) ==
    [error_code |-> error_code, error_info |-> error_info,
     success |-> success, data |-> data]

\* the value of an integer literal, None when it exceeds i32::MAX
RECURSIVE DeDigits(_, _)
DeDigits(digits, acc) ==
    IF Len(digits) = 0 THEN Some(acc)
    ELSE LET d == DigitValue(SubSeq(digits, 1, 1))
         IN  IF acc > (I32Max - d) \div 10 THEN None
             ELSE DeDigits(SubSeq(digits, 2, Len(digits)), acc * 10 + d)

\* Deserialize for i32, i64, String and bool: None when the value has another
\* type or, for i32, lies outside the 32-bit range; the i64 literals decoded
\* here lie inside it
DeI32(v) == IF v.json = "integer" THEN DeDigits(v.digits, 0) ELSE None
DeI64(v) == IF v.json = "integer" THEN DeDigits(v.digits, 0) ELSE None
DeString(v) == IF v.json = "string" THEN Some(v.str) ELSE None
DeBool(v) == IF v.json = "bool" THEN Some(v.bool) ELSE None

\* #[serde(rename_all = "lowercase")] MultisafepayPaymentStatus
DePaymentStatus(v) ==
    IF v.json # "string" THEN None
    ELSE CASE v.str = "completed" -> Some("Completed")
           [] v.str = "declined" -> Some("Declined")
           [] v.str = "initialized" -> Some("Initialized")
           [] v.str = "void" -> Some("Void")
           [] v.str = "uncleared" -> Some("Uncleared")
           [] OTHER -> None

\* Deserialize for Option<T>: a missing or null member is None
DeOption(v, De(_)) ==
    IF v.json \in {"absent", "null"} THEN Some(None)
    ELSE IF De(v).some THEN Some(De(v)) ELSE None

\* MultisafepayErrorResponse { error_code: i32, error_info: String }; members
\* the struct does not name are ignored
DeErrorResponse(payload) ==
    LET error_code == DeI32(payload.error_code)
        error_info == DeString(payload.error_info)
    IN  IF error_code.some /\ error_info.some
        THEN Some([shape |-> "ErrorResponse", error_code |-> error_code.val,
                   error_info |-> error_info.val])
        ELSE None

\* Data { order_id: String, status: Option<MultisafepayPaymentStatus>, .. }
DeData(v) ==
    IF v.json # "object" THEN None
    ELSE LET order_id == DeString(v.members.order_id)
             status == DeOption(v.members.status, DePaymentStatus)
         IN  IF order_id.some /\ status.some
             THEN Some(Data(status.val, None, None, None, None))
             ELSE None

\* MultisafepayPaymentsResponse { success: bool, data: Data }
DePaymentsResponse(payload) ==
    LET success == DeBool(payload.success)
        data == DeData(payload.data)
    IN  IF success.some /\ data.some
        THEN Some([shape |-> "PaymentResponse", success |-> success.val,
                   data |-> data.val])
        ELSE None

\* RefundData { transaction_id: i64, refund_id: i64, order_id, error_code,
\* error_info: Option<..> }
DeRefundData(v) ==
    IF v.json # "object" THEN None
    ELSE LET transaction_id == DeI64(v.members.transaction_id)
             refund_id == DeI64(v.members.refund_id)
         IN  IF transaction_id.some /\ refund_id.some
             THEN Some([transaction_id |-> transaction_id.val,
                        refund_id |-> refund_id.val, order_id |-> None,
                        error_code |-> None, error_info |-> None])
             ELSE None

\* RefundResponse { success: bool, data: RefundData }
DeRefundResponse(payload) ==
    LET success == DeBool(payload.success)
        data == DeRefundData(payload.data)
    IN  IF success.some /\ data.some
        THEN Some([shape |-> "RefundResponse", success |-> success.val,
                   data |-> data.val])
        ELSE None

\* a mutant: the second variant of the enum is tried before the first
Untagged_SecondFirst(first, second) ==
    IF second.some THEN ROk(second.val)
    ELSE IF first.some THEN ROk(first.val)
    ELSE RErr("data did not match any variant of untagged enum")

\* #[serde(untagged)]: the variants are tried in the order of their
\* declaration and the first that decodes is the value
Untagged(first, second) ==
    IF first.some THEN ROk(first.val)
    ELSE IF second.some THEN ROk(second.val)
    ELSE RErr("data did not match any variant of untagged enum")

\* enum MultisafepayAuthResponse { ErrorResponse(..), PaymentResponse(..) }
DeMultisafepayAuthResponse(payload) ==
    Untagged(DeErrorResponse(payload), DePaymentsResponse(payload))

\* enum MultisafepayRefundResponse { ErrorResponse(..), RefundResponse(..) }
DeMultisafepayRefundResponse(payload) ==
    Untagged(DeErrorResponse(payload), DeRefundResponse(payload))

InitDec ==
    /\ decFlow = Pending
    /\ decPayload = JAbsent
    /\ decResult = Pending
    /\ OutsideDecIdle

\* the body of an authorize response is decoded
DecodeAuthorize ==
    /\ \E error_code \in JsonErrorCodes, error_info \in JsonErrorInfos,
          success \in JsonSuccesses, data \in JsonPaymentDatas :
          LET payload == Payload(error_code, error_info, success, data)
          IN  /\ decPayload' = payload
              /\ decResult' = DeMultisafepayAuthResponse(payload)
    /\ decFlow' = "Authorize"
    /\ UNCHANGED OutsideDec

\* the body of a refund response is decoded
DecodeRefund ==
    /\ \E error_code \in JsonErrorCodes, error_info \in JsonErrorInfos,
          success \in JsonSuccesses, data \in JsonRefundDatas :
          LET payload == Payload(error_code, error_info, success, data)
          IN  /\ decPayload' = payload
              /\ decResult' = DeMultisafepayRefundResponse(payload)
    /\ decFlow' = "Refund"
    /\ UNCHANGED OutsideDec

NextDec == DecodeAuthorize \/ DecodeRefund

SpecDec == InitDec /\ [][NextDec]_vars

Decoded == decResult # Pending
CarriesSuccessShape == decPayload.success.json = "bool" /\ decPayload.data.json = "object"
DecodedAsError ==
    /\ decResult.ok
    /\ decResult.val.shape = "ErrorResponse"
    /\ JInteger(ToString(decResult.val.error_code)) = decPayload.error_code
    /\ JString(decResult.val.error_info) = decPayload.error_info

\* C24 as stated: every authorize or refund body that carries an integer
\* error_code and a string error_info decodes as the error variant, whatever
\* else it carries, and only a body without them decodes as the success shape.
C24_IntegerErrorCodeIsError ==
    Decoded =>
        LET error_shaped == /\ decPayload.error_code.json = "integer"
                            /\ decPayload.error_info.json = "string"
        IN  /\ error_shaped => DecodedAsError
            /\ (decResult.ok /\ decResult.val.shape # "ErrorResponse") => ~error_shaped

\* C24, amended: every authorize or refund body that carries an error_code
\* that is an integer of the 32-bit signed range and a string error_info
\* decodes as the error variant, whatever else it carries, and only a body
\* without them decodes as the success shape.
C24_ErrorShapeFirst ==
    Decoded =>
        LET error_shaped == /\ decPayload.error_code.json = "integer"
                            /\ DeDigits(decPayload.error_code.digits, 0).some
                            /\ decPayload.error_info.json = "string"
        IN  /\ error_shaped => DecodedAsError
            /\ (decResult.ok /\ decResult.val.shape # "ErrorResponse") => ~error_shaped
            /\ (~error_shaped /\ CarriesSuccessShape /\ decResult.ok) =>
                  decResult.val.shape # "ErrorResponse"

\* C24 witness: a body with both shapes' members, decoded as the error variant
C24_Witness ==
    /\ Decoded /\ CarriesSuccessShape
    /\ decPayload.error_code = JInteger("1001")
    /\ decPayload.error_info = JString("Invalid amount")
    /\ decPayload.success = JBool(TRUE)
    /\ decResult = ROk([shape |-> "ErrorResponse", error_code |-> 1001,
                        error_info |-> "Invalid amount"])


(***************************************************************************)
(* Business profile: ProfileUpdateInternal::apply_changeset                *)
(* (crates/diesel_models/src/business_profile.rs), features v1 and v2      *)
(***************************************************************************)
MaxSet == 1

\* Option::or
Or(opt, other) == IF opt.some THEN opt ELSE other

\* struct Profile (v1): its fields, and those of them that are no Option
ProfileFieldsV1 ==
    {"profile_id", "merchant_id", "profile_name", "created_at",
     "modified_at", "return_url", "enable_payment_response_hash",
     "payment_response_hash_key", "redirect_to_merchant_with_http_post",
     "webhook_details", "metadata", "routing_algorithm",
     "intent_fulfillment_time", "frm_routing_algorithm",
     "payout_routing_algorithm", "is_recon_enabled",
     "applepay_verified_domains", "payment_link_config", "session_expiry",
     "authentication_connector_details", "payout_link_config",
     "is_extended_card_info_enabled", "extended_card_info_config",
     "is_connector_agnostic_mit_enabled",
     "use_billing_as_payment_method_billing",
     "collect_shipping_details_from_wallet_connector",
     "collect_billing_details_from_wallet_connector",
     "outgoing_webhook_custom_http_headers",
     "always_collect_billing_details_from_wallet_connector",
     "always_collect_shipping_details_from_wallet_connector",
     "tax_connector_id", "is_tax_connector_enabled", "version",
     "dynamic_routing_algorithm", "is_network_tokenization_enabled",
     "is_auto_retries_enabled", "max_auto_retries_enabled",
     "always_request_extended_authorization", "is_click_to_pay_enabled",
     "authentication_product_ids", "card_testing_guard_config",
     "card_testing_secret_key", "is_clear_pan_retries_enabled",
     "force_3ds_challenge", "is_debit_routing_enabled",
     "merchant_business_country", "id", "is_iframe_redirection_enabled",
     "is_pre_network_tokenization_enabled",
     "three_ds_decision_rule_algorithm", "acquirer_config_map",
     "merchant_category_code", "merchant_country_code"}

ProfileRequiredV1 ==
    {"profile_id", "merchant_id", "profile_name", "created_at",
     "modified_at", "enable_payment_response_hash",
     "redirect_to_merchant_with_http_post", "is_recon_enabled", "version",
     "is_network_tokenization_enabled", "is_click_to_pay_enabled",
     "is_clear_pan_retries_enabled", "is_debit_routing_enabled"}

\* struct ProfileUpdateInternal (v1): its fields; all but modified_at are Options
ProfileUpdateFieldsV1 ==
    {"profile_name", "modified_at", "return_url",
     "enable_payment_response_hash", "payment_response_hash_key",
     "redirect_to_merchant_with_http_post", "webhook_details", "metadata",
     "routing_algorithm", "intent_fulfillment_time", "frm_routing_algorithm",
     "payout_routing_algorithm", "is_recon_enabled",
     "applepay_verified_domains", "payment_link_config", "session_expiry",
     "authentication_connector_details", "payout_link_config",
     "is_extended_card_info_enabled", "extended_card_info_config",
     "is_connector_agnostic_mit_enabled",
     "use_billing_as_payment_method_billing",
     "collect_shipping_details_from_wallet_connector",
     "collect_billing_details_from_wallet_connector",
     "outgoing_webhook_custom_http_headers",
     "always_collect_billing_details_from_wallet_connector",
     "always_collect_shipping_details_from_wallet_connector",
     "tax_connector_id", "is_tax_connector_enabled",
     "dynamic_routing_algorithm", "is_network_tokenization_enabled",
     "is_auto_retries_enabled", "max_auto_retries_enabled",
     "always_request_extended_authorization", "is_click_to_pay_enabled",
     "authentication_product_ids", "card_testing_guard_config",
     "card_testing_secret_key", "is_clear_pan_retries_enabled",
     "force_3ds_challenge", "is_debit_routing_enabled",
     "merchant_business_country", "is_iframe_redirection_enabled",
     "is_pre_network_tokenization_enabled",
     "three_ds_decision_rule_algorithm", "acquirer_config_map",
     "merchant_category_code", "merchant_country_code"}

\* struct Profile (v2): its fields, and those of them that are no Option
ProfileFieldsV2 ==
    {"merchant_id", "profile_name", "created_at", "modified_at",
     "return_url", "enable_payment_response_hash",
     "payment_response_hash_key", "redirect_to_merchant_with_http_post",
     "webhook_details", "metadata", "is_recon_enabled",
     "applepay_verified_domains", "payment_link_config", "session_expiry",
     "authentication_connector_details", "payout_link_config",
     "is_extended_card_info_enabled", "extended_card_info_config",
     "is_connector_agnostic_mit_enabled",
     "use_billing_as_payment_method_billing",
     "collect_shipping_details_from_wallet_connector",
     "collect_billing_details_from_wallet_connector",
     "outgoing_webhook_custom_http_headers",
     "always_collect_billing_details_from_wallet_connector",
     "always_collect_shipping_details_from_wallet_connector",
     "tax_connector_id", "is_tax_connector_enabled", "version",
     "dynamic_routing_algorithm", "is_network_tokenization_enabled",
     "is_auto_retries_enabled", "max_auto_retries_enabled",
     "always_request_extended_authorization", "is_click_to_pay_enabled",
     "authentication_product_ids", "card_testing_guard_config",
     "card_testing_secret_key", "is_clear_pan_retries_enabled",
     "force_3ds_challenge", "is_debit_routing_enabled",
     "merchant_business_country", "id", "is_iframe_redirection_enabled",
     "three_ds_decision_rule_algorithm", "acquirer_config_map",
     "merchant_category_code", "merchant_country_code",
     "routing_algorithm_id", "order_fulfillment_time",
     "order_fulfillment_time_origin", "frm_routing_algorithm_id",
     "payout_routing_algorithm_id", "default_fallback_routing",
     "three_ds_decision_manager_config", "should_collect_cvv_during_payment",
     "is_external_vault_enabled", "external_vault_connector_details",
     "revenue_recovery_retry_algorithm_type",
     "revenue_recovery_retry_algorithm_data"}

ProfileRequiredV2 ==
    {"merchant_id", "profile_name", "created_at", "modified_at",
     "enable_payment_response_hash", "redirect_to_merchant_with_http_post",
     "is_recon_enabled", "version", "is_network_tokenization_enabled",
     "is_click_to_pay_enabled", "is_clear_pan_retries_enabled",
     "is_debit_routing_enabled", "id"}

\* struct ProfileUpdateInternal (v2): its fields; all but modified_at are Options
ProfileUpdateFieldsV2 ==
    {"profile_name", "modified_at", "return_url",
     "enable_payment_response_hash", "payment_response_hash_key",
     "redirect_to_merchant_with_http_post", "webhook_details", "metadata",
     "is_recon_enabled", "applepay_verified_domains", "payment_link_config",
     "session_expiry", "authentication_connector_details",
     "payout_link_config", "is_extended_card_info_enabled",
     "extended_card_info_config", "is_connector_agnostic_mit_enabled",
     "use_billing_as_payment_method_billing",
     "collect_shipping_details_from_wallet_connector",
     "collect_billing_details_from_wallet_connector",
     "outgoing_webhook_custom_http_headers",
     "always_collect_billing_details_from_wallet_connector",
     "always_collect_shipping_details_from_wallet_connector",
     "tax_connector_id", "is_tax_connector_enabled",
     "is_network_tokenization_enabled", "is_auto_retries_enabled",
     "max_auto_retries_enabled", "is_click_to_pay_enabled",
     "authentication_product_ids", "card_testing_guard_config",
     "card_testing_secret_key", "is_clear_pan_retries_enabled",
     "is_debit_routing_enabled", "merchant_business_country",
     "merchant_category_code", "merchant_country_code",
     "routing_algorithm_id", "order_fulfillment_time",
     "order_fulfillment_time_origin", "frm_routing_algorithm_id",
     "payout_routing_algorithm_id", "default_fallback_routing",
     "three_ds_decision_manager_config", "should_collect_cvv_during_payment",
     "revenue_recovery_retry_algorithm_type",
     "revenue_recovery_retry_algorithm_data",
     "is_iframe_redirection_enabled", "is_external_vault_enabled",
     "external_vault_connector_details"}

\* apply_changeset(self, source) -> Profile, feature v1
apply_changeset_v1(self, source) ==
    [profile_id |-> source.profile_id,
     merchant_id |-> source.merchant_id,
     profile_name |-> unwrap_or(self.profile_name, source.profile_name),
     created_at |-> source.created_at,
     modified_at |-> self.modified_at,
     return_url |-> Or(self.return_url, source.return_url),
     enable_payment_response_hash |-> unwrap_or(self.enable_payment_response_hash, source.enable_payment_response_hash),
     payment_response_hash_key |-> Or(self.payment_response_hash_key, source.payment_response_hash_key),
     redirect_to_merchant_with_http_post |-> unwrap_or(self.redirect_to_merchant_with_http_post, source.redirect_to_merchant_with_http_post),
     webhook_details |-> Or(self.webhook_details, source.webhook_details),
     metadata |-> Or(self.metadata, source.metadata),
     routing_algorithm |-> Or(self.routing_algorithm, source.routing_algorithm),
     intent_fulfillment_time |-> Or(self.intent_fulfillment_time, source.intent_fulfillment_time),
     frm_routing_algorithm |-> Or(self.frm_routing_algorithm, source.frm_routing_algorithm),
     payout_routing_algorithm |-> Or(self.payout_routing_algorithm, source.payout_routing_algorithm),
     is_recon_enabled |-> unwrap_or(self.is_recon_enabled, source.is_recon_enabled),
     applepay_verified_domains |-> Or(self.applepay_verified_domains, source.applepay_verified_domains),
     payment_link_config |-> Or(self.payment_link_config, source.payment_link_config),
     session_expiry |-> Or(self.session_expiry, source.session_expiry),
     authentication_connector_details |-> Or(self.authentication_connector_details, source.authentication_connector_details),
     payout_link_config |-> Or(self.payout_link_config, source.payout_link_config),
     is_extended_card_info_enabled |-> Or(self.is_extended_card_info_enabled, source.is_extended_card_info_enabled),
     is_connector_agnostic_mit_enabled |-> Or(self.is_connector_agnostic_mit_enabled, source.is_connector_agnostic_mit_enabled),
     extended_card_info_config |-> Or(self.extended_card_info_config, source.extended_card_info_config),
     use_billing_as_payment_method_billing |-> Or(self.use_billing_as_payment_method_billing, source.use_billing_as_payment_method_billing),
     collect_shipping_details_from_wallet_connector |-> Or(self.collect_shipping_details_from_wallet_connector, source.collect_shipping_details_from_wallet_connector),
     collect_billing_details_from_wallet_connector |-> Or(self.collect_billing_details_from_wallet_connector, source.collect_billing_details_from_wallet_connector),
     outgoing_webhook_custom_http_headers |-> Or(self.outgoing_webhook_custom_http_headers, source.outgoing_webhook_custom_http_headers),
     always_collect_billing_details_from_wallet_connector |-> Or(self.always_collect_billing_details_from_wallet_connector, source.always_collect_billing_details_from_wallet_connector),
     always_collect_shipping_details_from_wallet_connector |-> Or(self.always_collect_shipping_details_from_wallet_connector, source.always_collect_shipping_details_from_wallet_connector),
     tax_connector_id |-> Or(self.tax_connector_id, source.tax_connector_id),
     is_tax_connector_enabled |-> Or(self.is_tax_connector_enabled, source.is_tax_connector_enabled),
     version |-> source.version,
     dynamic_routing_algorithm |-> Or(self.dynamic_routing_algorithm, source.dynamic_routing_algorithm),
     is_network_tokenization_enabled |-> unwrap_or(self.is_network_tokenization_enabled, source.is_network_tokenization_enabled),
     is_auto_retries_enabled |-> Or(self.is_auto_retries_enabled, source.is_auto_retries_enabled),
     max_auto_retries_enabled |-> Or(self.max_auto_retries_enabled, source.max_auto_retries_enabled),
     always_request_extended_authorization |-> Or(self.always_request_extended_authorization, source.always_request_extended_authorization),
     is_click_to_pay_enabled |-> unwrap_or(self.is_click_to_pay_enabled, source.is_click_to_pay_enabled),
     authentication_product_ids |-> Or(self.authentication_product_ids, source.authentication_product_ids),
     card_testing_guard_config |-> Or(self.card_testing_guard_config, source.card_testing_guard_config),
     card_testing_secret_key |-> self.card_testing_secret_key,
     is_clear_pan_retries_enabled |-> unwrap_or(self.is_clear_pan_retries_enabled, source.is_clear_pan_retries_enabled),
     force_3ds_challenge |-> self.force_3ds_challenge,
     id |-> source.id,
     is_debit_routing_enabled |-> unwrap_or(self.is_debit_routing_enabled, source.is_debit_routing_enabled),
     merchant_business_country |-> Or(self.merchant_business_country, source.merchant_business_country),
     is_iframe_redirection_enabled |-> Or(self.is_iframe_redirection_enabled, source.is_iframe_redirection_enabled),
     is_pre_network_tokenization_enabled |-> Or(self.is_pre_network_tokenization_enabled, source.is_pre_network_tokenization_enabled),
     three_ds_decision_rule_algorithm |-> Or(self.three_ds_decision_rule_algorithm, source.three_ds_decision_rule_algorithm),
     acquirer_config_map |-> Or(self.acquirer_config_map, source.acquirer_config_map),
     merchant_category_code |-> Or(self.merchant_category_code, source.merchant_category_code),
     merchant_country_code |-> Or(self.merchant_country_code, source.merchant_country_code)]

\* apply_changeset(self, source) -> Profile, feature v2
apply_changeset_v2(self, source) ==
    [id |-> source.id,
     merchant_id |-> source.merchant_id,
     profile_name |-> unwrap_or(self.profile_name, source.profile_name),
     created_at |-> source.created_at,
     modified_at |-> self.modified_at,
     return_url |-> Or(self.return_url, source.return_url),
     enable_payment_response_hash |-> unwrap_or(self.enable_payment_response_hash, source.enable_payment_response_hash),
     payment_response_hash_key |-> Or(self.payment_response_hash_key, source.payment_response_hash_key),
     redirect_to_merchant_with_http_post |-> unwrap_or(self.redirect_to_merchant_with_http_post, source.redirect_to_merchant_with_http_post),
     webhook_details |-> Or(self.webhook_details, source.webhook_details),
     metadata |-> Or(self.metadata, source.metadata),
     is_recon_enabled |-> unwrap_or(self.is_recon_enabled, source.is_recon_enabled),
     applepay_verified_domains |-> Or(self.applepay_verified_domains, source.applepay_verified_domains),
     payment_link_config |-> Or(self.payment_link_config, source.payment_link_config),
     session_expiry |-> Or(self.session_expiry, source.session_expiry),
     authentication_connector_details |-> Or(self.authentication_connector_details, source.authentication_connector_details),
     payout_link_config |-> Or(self.payout_link_config, source.payout_link_config),
     is_extended_card_info_enabled |-> Or(self.is_extended_card_info_enabled, source.is_extended_card_info_enabled),
     is_connector_agnostic_mit_enabled |-> Or(self.is_connector_agnostic_mit_enabled, source.is_connector_agnostic_mit_enabled),
     extended_card_info_config |-> Or(self.extended_card_info_config, source.extended_card_info_config),
     use_billing_as_payment_method_billing |-> Or(self.use_billing_as_payment_method_billing, source.use_billing_as_payment_method_billing),
     collect_shipping_details_from_wallet_connector |-> Or(self.collect_shipping_details_from_wallet_connector, source.collect_shipping_details_from_wallet_connector),
     collect_billing_details_from_wallet_connector |-> Or(self.collect_billing_details_from_wallet_connector, source.collect_billing_details_from_wallet_connector),
     outgoing_webhook_custom_http_headers |-> Or(self.outgoing_webhook_custom_http_headers, source.outgoing_webhook_custom_http_headers),
     always_collect_billing_details_from_wallet_connector |-> Or(self.always_collect_billing_details_from_wallet_connector, self.always_collect_billing_details_from_wallet_connector),
     always_collect_shipping_details_from_wallet_connector |-> Or(self.always_collect_shipping_details_from_wallet_connector, self.always_collect_shipping_details_from_wallet_connector),
     tax_connector_id |-> Or(self.tax_connector_id, source.tax_connector_id),
     is_tax_connector_enabled |-> Or(self.is_tax_connector_enabled, source.is_tax_connector_enabled),
     routing_algorithm_id |-> Or(self.routing_algorithm_id, source.routing_algorithm_id),
     order_fulfillment_time |-> Or(self.order_fulfillment_time, source.order_fulfillment_time),
     order_fulfillment_time_origin |-> Or(self.order_fulfillment_time_origin, source.order_fulfillment_time_origin),
     frm_routing_algorithm_id |-> Or(self.frm_routing_algorithm_id, source.frm_routing_algorithm_id),
     payout_routing_algorithm_id |-> Or(self.payout_routing_algorithm_id, source.payout_routing_algorithm_id),
     default_fallback_routing |-> Or(self.default_fallback_routing, source.default_fallback_routing),
     should_collect_cvv_during_payment |-> Or(self.should_collect_cvv_during_payment, source.should_collect_cvv_during_payment),
     version |-> source.version,
     dynamic_routing_algorithm |-> None,
     is_network_tokenization_enabled |-> unwrap_or(self.is_network_tokenization_enabled, source.is_network_tokenization_enabled),
     is_auto_retries_enabled |-> Or(self.is_auto_retries_enabled, source.is_auto_retries_enabled),
     max_auto_retries_enabled |-> Or(self.max_auto_retries_enabled, source.max_auto_retries_enabled),
     always_request_extended_authorization |-> None,
     is_click_to_pay_enabled |-> unwrap_or(self.is_click_to_pay_enabled, source.is_click_to_pay_enabled),
     authentication_product_ids |-> Or(self.authentication_product_ids, source.authentication_product_ids),
     three_ds_decision_manager_config |-> Or(self.three_ds_decision_manager_config, source.three_ds_decision_manager_config),
     card_testing_guard_config |-> Or(self.card_testing_guard_config, source.card_testing_guard_config),
     card_testing_secret_key |-> Or(self.card_testing_secret_key, source.card_testing_secret_key),
     is_clear_pan_retries_enabled |-> unwrap_or(self.is_clear_pan_retries_enabled, source.is_clear_pan_retries_enabled),
     force_3ds_challenge |-> None,
     is_debit_routing_enabled |-> unwrap_or(self.is_debit_routing_enabled, source.is_debit_routing_enabled),
     merchant_business_country |-> Or(self.merchant_business_country, source.merchant_business_country),
     revenue_recovery_retry_algorithm_type |-> Or(self.revenue_recovery_retry_algorithm_type, source.revenue_recovery_retry_algorithm_type),
     revenue_recovery_retry_algorithm_data |-> Or(self.revenue_recovery_retry_algorithm_data, source.revenue_recovery_retry_algorithm_data),
     is_iframe_redirection_enabled |-> Or(self.is_iframe_redirection_enabled, source.is_iframe_redirection_enabled),
     is_external_vault_enabled |-> Or(self.is_external_vault_enabled, source.is_external_vault_enabled),
     external_vault_connector_details |-> Or(self.external_vault_connector_details, source.external_vault_connector_details),
     three_ds_decision_rule_algorithm |-> None,
     acquirer_config_map |-> None,
     merchant_category_code |-> Or(self.merchant_category_code, source.merchant_category_code),
     merchant_country_code |-> Or(self.merchant_country_code, source.merchant_country_code)]
\* a stored profile: every field that is no Option holds its stored value,
\* every Option field holds opt
SourceProfile(fields, required, opt) ==
    [f \in fields |-> IF f \in required THEN "stored" ELSE opt]

\* a changeset that sets the fields of set and leaves the others None
ProfileUpdateInternal(fields, set) ==
    [f \in fields |->
        IF f = "modified_at" THEN "now"
        ELSE IF f \in set THEN Some("updated") ELSE None]

\* the sets of at most MaxSet fields a changeset sets
RECURSIVE SetsUpTo(_, _)
SetsUpTo(fields, n) ==
    IF n = 0 THEN {{}}
    ELSE LET smaller == SetsUpTo(fields, n - 1)
         IN  smaller \cup {set \cup {f} : set \in smaller, f \in fields}

SetsOf(fields) == SetsUpTo(fields \ {"modified_at"}, MaxSet)

\* the stored profile and the changeset handed to apply_changeset
InitBp ==
    /\ \E opt \in Option({"stored"}) :
          \/ /\ bpVersion = "v1"
             /\ bpSource = SourceProfile(ProfileFieldsV1, ProfileRequiredV1, opt)
             /\ \E set \in SetsOf(ProfileUpdateFieldsV1) :
                   bpChangeset = ProfileUpdateInternal(ProfileUpdateFieldsV1, set)
          \/ /\ bpVersion = "v2"
             /\ bpSource = SourceProfile(ProfileFieldsV2, ProfileRequiredV2, opt)
             /\ \E set \in SetsOf(ProfileUpdateFieldsV2) :
                   bpChangeset = ProfileUpdateInternal(ProfileUpdateFieldsV2, set)
    /\ bpResult = Pending
    /\ OutsideBpIdle

\* the changeset is applied to the stored profile, feature v1
ApplyChangesetV1 ==
    /\ bpVersion = "v1"
    /\ bpResult = Pending
    /\ bpResult' = apply_changeset_v1(bpChangeset, bpSource)
    /\ UNCHANGED <<bpVersion, bpSource, bpChangeset, OutsideBp>>

\* the changeset is applied to the stored profile, feature v2
ApplyChangesetV2 ==
    /\ bpVersion = "v2"
    /\ bpResult = Pending
    /\ bpResult' = apply_changeset_v2(bpChangeset, bpSource)
    /\ UNCHANGED <<bpVersion, bpSource, bpChangeset, OutsideBp>>

NextBp == ApplyChangesetV1 \/ ApplyChangesetV2

SpecBp == InitBp /\ [][NextBp]_vars

\* C28: in the profile apply_changeset returns (v1 and v2), modified_at is the
\* changeset's, and every other field whose changeset value is None or that
\* the changeset has no counterpart for has the source profile's value.
C28_OnlySetFieldsChange ==
    bpResult # Pending =>
        \A f \in DOMAIN bpResult :
            IF f = "modified_at" THEN bpResult[f] = bpChangeset[f]
            ELSE (f \notin DOMAIN bpChangeset \/ ~bpChangeset[f].some) =>
                    bpResult[f] = bpSource[f]


(***************************************************************************)
(* Theme routes (crates/router/src/routes/user/theme.rs)                   *)
(***************************************************************************)
\* the permissions a token's role may hold
Permissions == {"OrganizationThemeRead", "OrganizationThemeWrite", "MerchantAccountRead"}

\* what a request carries: nothing, an API key, or a user's token
NoCredential == [kind |-> "none"]
ApiKey(key) == [kind |-> "api_key", key |-> key]
Jwt(permissions) == [kind |-> "jwt", permissions |-> permissions]
Credentials ==
    {NoCredential, ApiKey("admin_api_key"), ApiKey("merchant_api_key")}
    \cup {Jwt(permissions) : permissions \in SUBSET Permissions}

\* auth::AdminApiAuth and auth::JWTAuth { permission }
AdminApiAuth == [auth |-> "AdminApiAuth"]
JWTAuth(permission) == [auth |-> "JWTAuth", permission |-> permission]

\* api_locking::LockAction::NotApplicable
NotApplicable == "NotApplicable"

\* authenticate_and_fetch of the guard: the admin API key, or a token whose
\* role holds the permission
Authenticate(api_auth, credential) ==
    IF api_auth.auth = "AdminApiAuth"
    THEN credential = ApiKey("admin_api_key")
    ELSE credential.kind = "jwt" /\ api_auth.permission \in credential.permissions

\* api::server_wrap(flow, state, &req, payload, func, api_auth, lock_action):
\* the request is authenticated by the guard, then the lock action is
\* performed and func, the handler's core call, runs; a request the guard
\* rejects is answered without either
server_wrap(route, flow, api_auth, lock_action) ==
    /\ \E credential \in Credentials :
          /\ thCredential' = credential
          /\ thOutcome' =
                IF Authenticate(api_auth, credential)
                THEN [flow |-> flow, authenticated |-> TRUE, func_ran |-> TRUE,
                      lock_acquired |-> lock_action # NotApplicable]
                ELSE [flow |-> flow, authenticated |-> FALSE, func_ran |-> FALSE,
                      lock_acquired |-> FALSE]
    /\ thRoute' = route
    /\ UNCHANGED OutsideTh

InitTh ==
    /\ thRoute = Pending
    /\ thCredential = NoCredential
    /\ thOutcome = Pending
    /\ OutsideThIdle

get_theme_using_lineage ==
    server_wrap("get_theme_using_lineage", "GetThemeUsingLineage",
                AdminApiAuth, NotApplicable)

get_theme_using_theme_id ==
    server_wrap("get_theme_using_theme_id", "GetThemeUsingThemeId",
                AdminApiAuth, NotApplicable)

upload_file_to_theme_storage ==
    server_wrap("upload_file_to_theme_storage", "UploadFileToThemeStorage",
                AdminApiAuth, NotApplicable)

create_theme ==
    server_wrap("create_theme", "CreateTheme",
                AdminApiAuth, NotApplicable)

update_theme ==
    server_wrap("update_theme", "UpdateTheme",
                AdminApiAuth, NotApplicable)

delete_theme ==
    server_wrap("delete_theme", "DeleteTheme",
                AdminApiAuth, NotApplicable)

create_user_theme ==
    server_wrap("create_user_theme", "CreateUserTheme",
                JWTAuth("OrganizationThemeWrite"), NotApplicable)

get_user_theme_using_theme_id ==
    server_wrap("get_user_theme_using_theme_id", "GetUserThemeUsingThemeId",
                JWTAuth("OrganizationThemeRead"), NotApplicable)

update_user_theme ==
    server_wrap("update_user_theme", "UpdateUserTheme",
                JWTAuth("OrganizationThemeWrite"), NotApplicable)

delete_user_theme ==
    server_wrap("delete_user_theme", "DeleteUserTheme",
                JWTAuth("OrganizationThemeWrite"), NotApplicable)

\* a mutant: the upload of a user theme asks for the read permission
upload_file_to_user_theme_storage_Read ==
    server_wrap("upload_file_to_user_theme_storage", "UploadFileToUserThemeStorage",
                JWTAuth("OrganizationThemeRead"), NotApplicable)

upload_file_to_user_theme_storage ==
    server_wrap("upload_file_to_user_theme_storage", "UploadFileToUserThemeStorage",
                JWTAuth("OrganizationThemeWrite"), NotApplicable)

list_all_themes_in_lineage ==
    server_wrap("list_all_themes_in_lineage", "ListAllThemesInLineage",
                JWTAuth("OrganizationThemeRead"), NotApplicable)

get_user_theme_using_lineage ==
    server_wrap("get_user_theme_using_lineage", "GetUserThemeUsingLineage",
                JWTAuth("OrganizationThemeRead"), NotApplicable)

NextTh ==
    \/ get_theme_using_lineage
    \/ get_theme_using_theme_id
    \/ upload_file_to_theme_storage
    \/ create_theme
    \/ update_theme
    \/ delete_theme
    \/ create_user_theme
    \/ get_user_theme_using_theme_id
    \/ update_user_theme
    \/ delete_user_theme
    \/ upload_file_to_user_theme_storage
    \/ list_all_themes_in_lineage
    \/ get_user_theme_using_lineage

SpecTh == InitTh /\ [][NextTh]_vars

UserThemeWriteRoutes ==
    {"create_user_theme", "update_user_theme", "delete_user_theme",
     "upload_file_to_user_theme_storage"}
UserThemeReadRoutes ==
    {"get_user_theme_using_theme_id", "list_all_themes_in_lineage",
     "get_user_theme_using_lineage"}
HoldsPermission(permission) ==
    thCredential.kind = "jwt" /\ permission \in thCredential.permissions

\* C30: the handler of a theme route runs only for a request that passed the
\* route's guard: a token with OrganizationThemeWrite on the user-scoped
\* create, update, delete and upload routes, a token with
\* OrganizationThemeRead on the user-scoped read routes, the admin API key on
\* every other theme route; and no theme route acquires an API lock.
C30_ThemeRoutesGuarded ==
    thOutcome # Pending =>
        /\ ~thOutcome.lock_acquired
        /\ thOutcome.func_ran =>
              IF thRoute \in UserThemeWriteRoutes
              THEN HoldsPermission("OrganizationThemeWrite")
              ELSE IF thRoute \in UserThemeReadRoutes
              THEN HoldsPermission("OrganizationThemeRead")
              ELSE thCredential = ApiKey("admin_api_key")

\* C30 witness: an upload to a user theme ran for a token with the write
\* permission only
C30_Witness ==
    /\ thOutcome # Pending
    /\ thRoute = "upload_file_to_user_theme_storage"
    /\ thCredential = Jwt({"OrganizationThemeWrite"})
    /\ thOutcome.func_ran /\ ~thOutcome.lock_acquired
====
